---- MODULE Spec2Model ----
(***************************************************************************)
(* Verification model of mayfer/maid (maid.ts).                            *)
(*                                                                         *)
(*   SpecExtractor : createCommandTagStreamParser, driven with an input    *)
(*                   string cut into arbitrary consecutive chunks, then    *)
(*                   flushed once.                                         *)
(*   SpecToolLoop  : the web-search tool loop of                           *)
(*                   streamCustomOpenAICompatibleResponse together with    *)
(*                   the caller-side re-emit of streamChatResponse.        *)
(*                                                                         *)
(* Strings are sequences of one-character strings.                         *)
(***************************************************************************)
EXTENDS Integers, Sequences, FiniteSets, TLC

VARIABLES
    \* ---- command-tag extractor (createCommandTagStreamParser) ----
    input,          \* the total answer text S of one streaming call
    pos,            \* number of characters of input fed so far
    pending,        \* parser field `pending`
    inCommand,      \* parser field `inCommand`
    commandBuffer,  \* parser field `commandBuffer`
    lastVisible,    \* `visible` returned by the latest feed()/flush() call
    visibleFeeds,   \* concatenation of `visible` of all feed() calls so far
    flushVisible,   \* `visible` returned by flush()
    commandsAll,    \* all commands returned by feed() calls, in order
    phase,          \* "feeding" | "flushed"
    exampleStep,    \* chunks of ExampleChunks matched so far, -1 once off it
    \* ---- tool loop (streamCustomOpenAICompatibleResponse, webSearch) ----
    tpc,            \* control position of the call
    round,          \* loop variable `round`
    requestMessages,\* local array `requestMessages` (tool-protocol fields)
    callQueue,      \* tool calls of the current response not yet handled
    webSnippets,    \* local array `webSnippets`
    webSearchCache, \* local Map `webSearchCache`: query -> result
    lastRequest,    \* messages of the request in flight / last sent
    toolRequests,   \* tool-enabled requests issued
    forcedRequests, \* forced-final (tool-free) requests issued
    searchCalls,    \* invocations of fetchSearchResults, in order: the query and
                    \* what the two endpoints answered
    deltas,         \* strings delivered to onAnswerDelta, in order
    sawAnyAnswerDelta, \* caller flag of streamChatResponse
    returned,       \* string returned by the call (meaningful once tpc is "returned")
    endedBy,        \* which branch produced the return value
    \* ---- streamChatResponse, the caller of both ----
    messages,       \* the caller-owned array `messages` (the chat history)
    userStopped,    \* local flag `userStopped`; set together with abort()
    outcome,        \* how the turn ended: "completed" | "stopped" | "failed"
    \* ---- streamChatResponse over a streamed answer ----
    provider,       \* "openrouter" | "openai" (reasoningStream) | "custom" (baseUrl)
    cpc,            \* control position: "start" | "connecting" | "streaming" | "settled"
    transport,      \* the request of the adapter: "open" | "cancelled" | "closed"
    rawResponse,    \* local `rawResponse`: the deltas onAnswerDelta has taken
    pendingAnswerTail, \* local `pendingAnswerTail`
    rendered,       \* answer text written to stdout so far
    sawReasoning,   \* local flag `sawReasoning`
    backendAfterStop, \* the call consumed a backend event after the stop
    \* ---- one provider adapter's reasoningStream ----
    adapter,        \* which adapter module serves the call
    apc,            \* control position: "start" | "streaming" | "returned" | "failed"
    effort,         \* opts.effort as the caller passed it ("unset" when omitted)
    hasCredential,  \* an API key is available to getClient
    network,        \* network requests issued by the call, in order
    adapterError,   \* message of the error the call threw
    requestParams,  \* the request the adapter built
    modelLookup,    \* what the model-list call of the OpenRouter adapter gave
    thinking,       \* local `thinking`
    finalAnswer,    \* local `finalAnswer`
    answerDeltas,   \* strings passed to opts.onAnswerDelta, in order
    reasoningDeltas,\* strings passed to opts.onReasoningDelta, in order
    processedReasoningIds, \* local Set `processedReasoningIds`
    usage,          \* locals inputTokens, outputTokens, reasoningTokens, totalTokens
    lastChunk,      \* the stream event handled last
    chunkCount,     \* stream events handled in this call
    isFirstCall,    \* no earlier call has returned
    emittedIds,     \* ids of the reasoning fragments this call has emitted
    seenEarlier,    \* ids an earlier call had in its seen-id set
    reported,       \* per usage field, the last number the backend reported
    \* ---- looksExecutableShellCommand ----
    gateCommand,    \* the argument `command`
    gpc,            \* "idle" | "called" | "returned"
    gateVerdict,    \* the value returned
    \* ---- streamChatResponse: the command of a turn ----
    turnAnswer,     \* the answer text the backend streams in this turn
    turnPc,         \* "idle" | "start" | "mid" | "streamed" | "completed" | "caught" | "done" | "exited"
    turnPos,        \* how much of the answer the backend has sent
    turnRaw,        \* local `rawResponse`
    turnParser,     \* fields of `commandTagParser`
    turnFull,       \* local `fullResponse`
    taggedCommand,  \* local `taggedCommand`
    commandToRun,   \* local `commandToRun`
    surfaced,       \* commands shown to the user for confirmation, in order
    \* ---- the model picker and its model-list fetches ----
    picker,         \* "none" | "terminal" (maid.ts) | "react" (model-picker.tsx)
    ppc,            \* "idle" | "open" | "closed"
    activeList,     \* `activeList` / `activeTab`
    hasOpenRouterKey, \* `hasOpenRouterKey` (model-picker.tsx)
    listModels,     \* per tab, `newestModels` / `customModels`
    loadError,      \* per tab, `newestLoadError` / `customLoadError`
    loading,        \* per tab, `loadingNewest` / `loadingCustom`
    fetchSeq,       \* per tab, `newestFetchSeq` / `customFetchSeq`
    fetchController, \* per tab, the fetch whose AbortController is held (0: none)
    fetches,        \* the model-list fetches started, in order
    canRender,      \* `canRender`
    lastRender,     \* what the render() calls of the last step did:
                    \* "none" (no call) | "drawn" | "suppressed"
    \* ---- streamCustomOpenAICompatibleResponse: the event-stream decoder ----
    sseBody,        \* the response body, as text
    sseRead,        \* how much of the body reader.read() has returned
    sseBuffer,      \* local `buffer`
    sseFull,        \* local `full`
    sseDeltas,      \* the arguments of the onDelta calls, in order
    spc,            \* "idle" | "reading" | "returned"
    \* ---- the terminal controller (controller2.ts) ----
    monitoring,     \* TerminalController.monitoring
    hasAgent,       \* main() registered its 'idle' handler on this controller
    screen,         \* what capturePane() returns now, as a content number
    lastContent,    \* TerminalController.lastContent
    elapsed,        \* monitor iterations since lastStateChange, up to idleTimeout
    currentState,   \* TerminalController.currentState: "busy" | "idle"
    waiters,        \* 'idle' listeners of pending waits
    waitsStarted,   \* waits started so far
    cycles          \* per cycle slot: "free" | "llm" | "waiting"

extractorVars == <<input, pos, pending, inCommand, commandBuffer, lastVisible,
                   visibleFeeds, flushVisible, commandsAll, phase, exampleStep>>
toolVars == <<tpc, round, requestMessages, callQueue, webSnippets,
              webSearchCache, lastRequest, toolRequests, forcedRequests,
              searchCalls, deltas, sawAnyAnswerDelta, returned, endedBy>>
callerVars == <<messages, userStopped, outcome>>
chatVars == <<provider, cpc, transport, rawResponse, pendingAnswerTail, rendered,
              sawReasoning, backendAfterStop>>
adapterVars == <<adapter, apc, effort, hasCredential, network, adapterError,
                 requestParams, modelLookup, thinking, finalAnswer, answerDeltas,
                 reasoningDeltas, processedReasoningIds, usage, lastChunk,
                 chunkCount, isFirstCall, emittedIds, seenEarlier, reported>>
gateVars == <<gateCommand, gpc, gateVerdict>>
turnVars == <<turnAnswer, turnPc, turnPos, turnRaw, turnParser, turnFull,
              taggedCommand, commandToRun, surfaced>>
pickerVars == <<picker, ppc, activeList, hasOpenRouterKey, listModels,
                loadError, loading, fetchSeq, fetchController, fetches,
                canRender, lastRender>>
sseVars == <<sseBody, sseRead, sseBuffer, sseFull, sseDeltas, spc>>
controllerVars == <<monitoring, hasAgent, screen, lastContent, elapsed,
                    currentState, waiters, waitsStarted, cycles>>
auxVars == <<adapterVars, gateVars, turnVars, pickerVars, sseVars,
            controllerVars>>
vars == <<extractorVars, toolVars, callerVars, chatVars, auxVars>>

(***************************************************************************)
(* String helpers (JavaScript semantics)                                   *)
(***************************************************************************)
Min(a, b) == IF a < b THEN a ELSE b

\* s.slice(from) with 0-based from
sliceFrom(s, from) == SubSeq(s, from + 1, Len(s))

\* s.slice(0, to)
sliceTo(s, to) == SubSeq(s, 1, to)

\* s.indexOf(t): 0-based index of the first occurrence, -1 if none
indexOf(s, t) ==
    LET hits == {i \in 0..(Len(s) - Len(t)) : SubSeq(s, i + 1, i + Len(t)) = t}
    IN  IF hits = {} THEN -1
        ELSE CHOOSE i \in hits : \A j \in hits : i <= j

IsSpace(c) == c \in {" ", "\n", "\t", "\r"}

\* s.trim()
trim(s) ==
    LET keep == {i \in 1..Len(s) : ~IsSpace(s[i])}
    IN  IF keep = {} THEN <<>>
        ELSE LET lo == CHOOSE i \in keep : \A j \in keep : i <= j
                 hi == CHOOSE i \in keep : \A j \in keep : j <= i
             IN  SubSeq(s, lo, hi)

(***************************************************************************)
(* createCommandTagStreamParser                                            *)
(***************************************************************************)
openTag == <<"<","c","o","m","m","a","n","d",">">>
closeTag == <<"<","/","c","o","m","m","a","n","d",">">>

\* mutant: no trailing characters are ever held back
longestSuffixPrefixLenNone(value, token) == 0

longestSuffixPrefixLen(value, token) ==
    LET max == Min(Len(value), Len(token) - 1)
        ok == {len \in 1..max :
                 SubSeq(value, Len(value) - len + 1, Len(value)) = SubSeq(token, 1, len)}
    IN  IF ok = {} THEN 0
        ELSE CHOOSE len \in ok : \A other \in ok : other <= len

\* Parser state plus the locals of one feed() call.
\* `more` is TRUE while the while-loop of feed() goes on (continue), FALSE on break.
FreshParser == [pending |-> <<>>, inCommand |-> FALSE, commandBuffer |-> <<>>]

\* mutant: on a miss outside a tag nothing is flushed
outsideStepKeepAll(st) ==
    LET idx == indexOf(st.pending, openTag)
    IN  IF idx = -1
        THEN [st EXCEPT !.more = FALSE]
        ELSE [st EXCEPT !.visible = @ \o sliceTo(st.pending, idx),
                        !.pending = sliceFrom(st.pending, idx + Len(openTag)),
                        !.inCommand = TRUE,
                        !.commandBuffer = <<>>]

\* one iteration of the while-loop with !inCommand (maid.ts 268-284)
outsideStep(st) ==
    LET idx == indexOf(st.pending, openTag)
    IN  IF idx = -1
        THEN LET keepLen == longestSuffixPrefixLen(st.pending, openTag)
                 flushLen == Len(st.pending) - keepLen
             IN  IF flushLen > 0
                 THEN [st EXCEPT !.visible = @ \o sliceTo(st.pending, flushLen),
                                 !.pending = sliceFrom(st.pending, flushLen),
                                 !.more = FALSE]
                 ELSE [st EXCEPT !.more = FALSE]
        ELSE [st EXCEPT !.visible = IF idx > 0 THEN @ \o sliceTo(st.pending, idx) ELSE @,
                        !.pending = sliceFrom(st.pending, idx + Len(openTag)),
                        !.inCommand = TRUE,
                        !.commandBuffer = <<>>]

\* mutant: text inside the tag goes to the command buffer only, not to visible
insideStepNoEcho(st) ==
    LET closeIdx == indexOf(st.pending, closeTag)
    IN  IF closeIdx = -1
        THEN LET keepLen == longestSuffixPrefixLen(st.pending, closeTag)
                 flushLen == Len(st.pending) - keepLen
             IN  IF flushLen > 0
                 THEN [st EXCEPT !.commandBuffer = @ \o sliceTo(st.pending, flushLen),
                                 !.pending = sliceFrom(st.pending, flushLen),
                                 !.more = FALSE]
                 ELSE [st EXCEPT !.more = FALSE]
        ELSE LET buf == IF closeIdx > 0
                        THEN st.commandBuffer \o sliceTo(st.pending, closeIdx)
                        ELSE st.commandBuffer
                 command == trim(buf)
             IN  [st EXCEPT !.commands = IF Len(command) > 0 THEN Append(@, command) ELSE @,
                            !.pending = sliceFrom(st.pending, closeIdx + Len(closeTag)),
                            !.inCommand = FALSE,
                            !.commandBuffer = <<>>]

\* mutant: the completed command is the buffer as it is, not trimmed
insideStepUntrimmed(st) ==
    LET closeIdx == indexOf(st.pending, closeTag)
    IN  IF closeIdx = -1
        THEN LET keepLen == longestSuffixPrefixLen(st.pending, closeTag)
                 flushLen == Len(st.pending) - keepLen
             IN  IF flushLen > 0
                 THEN LET part == sliceTo(st.pending, flushLen)
                      IN  [st EXCEPT !.commandBuffer = @ \o part,
                                     !.visible = @ \o part,
                                     !.pending = sliceFrom(st.pending, flushLen),
                                     !.more = FALSE]
                 ELSE [st EXCEPT !.more = FALSE]
        ELSE LET part == sliceTo(st.pending, closeIdx)
                 buf == IF closeIdx > 0 THEN st.commandBuffer \o part ELSE st.commandBuffer
             IN  [st EXCEPT !.visible = IF closeIdx > 0 THEN @ \o part ELSE @,
                            !.commands = IF Len(trim(buf)) > 0 THEN Append(@, buf) ELSE @,
                            !.pending = sliceFrom(st.pending, closeIdx + Len(closeTag)),
                            !.inCommand = FALSE,
                            !.commandBuffer = <<>>]

\* one iteration of the while-loop with inCommand (maid.ts 286-308)
insideStep(st) ==
    LET closeIdx == indexOf(st.pending, closeTag)
    IN  IF closeIdx = -1
        THEN LET keepLen == longestSuffixPrefixLen(st.pending, closeTag)
                 flushLen == Len(st.pending) - keepLen
             IN  IF flushLen > 0
                 THEN LET part == sliceTo(st.pending, flushLen)
                      IN  [st EXCEPT !.commandBuffer = @ \o part,
                                     !.visible = @ \o part,
                                     !.pending = sliceFrom(st.pending, flushLen),
                                     !.more = FALSE]
                 ELSE [st EXCEPT !.more = FALSE]
        ELSE LET part == sliceTo(st.pending, closeIdx)
                 buf == IF closeIdx > 0 THEN st.commandBuffer \o part ELSE st.commandBuffer
                 command == trim(buf)
             IN  [st EXCEPT !.visible = IF closeIdx > 0 THEN @ \o part ELSE @,
                            !.commands = IF Len(command) > 0 THEN Append(@, command) ELSE @,
                            !.pending = sliceFrom(st.pending, closeIdx + Len(closeTag)),
                            !.inCommand = FALSE,
                            !.commandBuffer = <<>>]

\* while (pending.length > 0) { ... }
RECURSIVE feedLoop(_)
feedLoop(st) ==
    IF Len(st.pending) = 0 \/ ~st.more THEN st
    ELSE IF ~st.inCommand THEN feedLoop(outsideStep(st))
    ELSE feedLoop(insideStep(st))

\* feed(chunk) on parser state p: the new parser fields, `visible` and `commands`
feed(p, chunk) ==
    feedLoop([pending |-> p.pending \o chunk,
              inCommand |-> p.inCommand,
              commandBuffer |-> p.commandBuffer,
              visible |-> <<>>,
              commands |-> <<>>,
              more |-> TRUE])

\* mutant: flush() forgets the held-back text
flushDropPending(p) ==
    IF ~p.inCommand
    THEN [pending |-> <<>>, inCommand |-> FALSE, commandBuffer |-> p.commandBuffer,
          visible |-> <<>>, commands |-> <<>>]
    ELSE [pending |-> <<>>, inCommand |-> FALSE, commandBuffer |-> <<>>,
          visible |-> openTag \o p.commandBuffer, commands |-> <<>>]

\* flush() on parser state p
flush(p) ==
    IF ~p.inCommand
    THEN [pending |-> <<>>, inCommand |-> FALSE, commandBuffer |-> p.commandBuffer,
          visible |-> p.pending, commands |-> <<>>]
    ELSE [pending |-> <<>>, inCommand |-> FALSE, commandBuffer |-> <<>>,
          visible |-> openTag \o p.commandBuffer \o p.pending, commands |-> <<>>]

(***************************************************************************)
(* Inputs of the extractor                                                 *)
(***************************************************************************)
\* Building blocks of the generated inputs: both tag literals, ordinary text,
\* white space, and false starts of either literal.
Pieces == {openTag, closeTag, <<"a">>, <<" ">>, <<"<","c","o","m">>, <<"<","/","c">>}

MaxPieces == 3

RECURSIVE Concats(_)
Concats(n) ==
    IF n = 0 THEN {<<>>}
    ELSE LET prev == Concats(n - 1)
         IN  prev \cup {s \o p : s \in prev, p \in Pieces}

\* The worked example of the extractor and its chunking.
ExampleChunks == <<
    <<"H","e","r","e">>,
    <<"'","s"," ","t","h","e"," ","c","o">>,
    <<"m","m","a","n","d",":"," ","<","c","o","m","m">>,
    <<"a","n","d",">","l","s"," ","-","l","a","<","/","c","o","m","m","a","n","d",">"," ","d","o","n","e">> >>
Example == ExampleChunks[1] \o ExampleChunks[2] \o ExampleChunks[3] \o ExampleChunks[4]

\* A tag that is opened and never closed.
Unterminated == <<"a","b","c","<","c","o","m","m","a","n","d",">","d","e","f">>

\* Two command regions, the first with padded content, then the beginning of a
\* third open literal at the very end of the stream.
TwoCommands ==
    openTag \o <<" ","a"," ">> \o closeTag \o <<"b">> \o openTag \o <<"c">> \o closeTag
    \o <<"<","c">>

Inputs == Concats(MaxPieces) \cup {Example, Unterminated, TwoCommands}

(***************************************************************************)
(* Extractor: one streaming call feeds the answer deltas, then flushes     *)
(* (streamChatResponse.onAnswerDelta, maid.ts 1392; flush, maid.ts 1459)   *)
(***************************************************************************)
Parser == [pending |-> pending, inCommand |-> inCommand, commandBuffer |-> commandBuffer]

ExtractorIdle ==
    /\ input = <<>> /\ pos = 0
    /\ pending = <<>> /\ inCommand = FALSE /\ commandBuffer = <<>>
    /\ lastVisible = <<>> /\ visibleFeeds = <<>> /\ flushVisible = <<>>
    /\ commandsAll = <<>> /\ phase = "flushed" /\ exampleStep = -1

InitExtractor ==
    /\ input \in Inputs
    /\ pos = 0
    /\ pending = FreshParser.pending
    /\ inCommand = FreshParser.inCommand
    /\ commandBuffer = FreshParser.commandBuffer
    /\ lastVisible = <<>> /\ visibleFeeds = <<>> /\ flushVisible = <<>>
    /\ commandsAll = <<>>
    /\ phase = "feeding"
    /\ exampleStep = IF input = Example THEN 0 ELSE -1

\* feed(chunk) for the next chunk of the input, of any non-zero length
Feed ==
    /\ phase = "feeding"
    /\ pos < Len(input)
    /\ \E k \in 1..(Len(input) - pos) :
         LET chunk == SubSeq(input, pos + 1, pos + k)
             r == feed(Parser, chunk)
         IN  /\ pos' = pos + k
             /\ pending' = r.pending
             /\ inCommand' = r.inCommand
             /\ commandBuffer' = r.commandBuffer
             /\ lastVisible' = r.visible
             /\ visibleFeeds' = visibleFeeds \o r.visible
             /\ commandsAll' = commandsAll \o r.commands
             /\ exampleStep' = IF /\ exampleStep >= 0
                                  /\ exampleStep < Len(ExampleChunks)
                                  /\ chunk = ExampleChunks[exampleStep + 1]
                               THEN exampleStep + 1 ELSE -1
    /\ UNCHANGED <<input, flushVisible, phase>>

\* flush(), once, at stream end
Flush ==
    /\ phase = "feeding"
    /\ pos = Len(input)
    /\ LET r == flush(Parser)
       IN  /\ pending' = r.pending
           /\ inCommand' = r.inCommand
           /\ commandBuffer' = r.commandBuffer
           /\ lastVisible' = r.visible
           /\ flushVisible' = r.visible
    /\ phase' = "flushed"
    /\ UNCHANGED <<input, pos, visibleFeeds, commandsAll, exampleStep>>

(***************************************************************************)
(* Specification of the extractor                                          *)
(***************************************************************************)
NoValue == "NoValue"

ToolIdle ==
    /\ tpc = "idle" /\ round = 0
    /\ requestMessages = <<>> /\ callQueue = <<>> /\ webSnippets = <<>>
    /\ webSearchCache = <<>> /\ lastRequest = <<>>
    /\ toolRequests = 0 /\ forcedRequests = 0 /\ searchCalls = <<>>
    /\ deltas = <<>> /\ sawAnyAnswerDelta = FALSE
    /\ returned = <<>> /\ endedBy = NoValue

CallerIdle == messages = <<>> /\ userStopped = FALSE /\ outcome = NoValue

ChatIdle ==
    /\ provider = "none" /\ cpc = "idle" /\ transport = "closed"
    /\ rawResponse = <<>> /\ pendingAnswerTail = <<>> /\ rendered = <<>>
    /\ sawReasoning = FALSE /\ backendAfterStop = FALSE

\* a JavaScript number, `undefined`, and NaN
Num(n) == [kind |-> "number", value |-> n]
Undefined == [kind |-> "undefined", value |-> 0]
NaN == [kind |-> "NaN", value |-> 0]

\* the four usage locals before any usage event (all `undefined`)
NoUsage ==
    [inputTokens |-> Undefined, outputTokens |-> Undefined,
     reasoningTokens |-> Undefined, totalTokens |-> Undefined]

NoChunk == [type |-> "none"]

NoRequest ==
    [max_tokens |-> 0, thinking |-> [attached |-> FALSE, budget_tokens |-> 0],
     reasoning |-> "none"]

AdapterIdle ==
    /\ adapter = "none" /\ apc = "idle" /\ effort = "unset"
    /\ hasCredential = FALSE /\ network = <<>> /\ adapterError = <<>>
    /\ requestParams = NoRequest /\ modelLookup = "none"
    /\ thinking = <<>> /\ finalAnswer = <<>>
    /\ answerDeltas = <<>> /\ reasoningDeltas = <<>>
    /\ processedReasoningIds = {} /\ usage = NoUsage
    /\ lastChunk = NoChunk /\ chunkCount = 0
    /\ isFirstCall = TRUE /\ emittedIds = <<>> /\ seenEarlier = {}
    /\ reported = NoUsage

GateIdle == gateCommand = <<>> /\ gpc = "idle" /\ gateVerdict = FALSE

TurnIdle ==
    /\ turnAnswer = <<>> /\ turnPc = "idle" /\ turnPos = 0 /\ turnRaw = <<>>
    /\ turnParser = [pending |-> <<>>, inCommand |-> FALSE, commandBuffer |-> <<>>]
    /\ turnFull = <<>>
    /\ taggedCommand = [str |-> FALSE, text |-> <<>>]
    /\ commandToRun = [str |-> FALSE, text |-> <<>>]
    /\ surfaced = <<>>

FetchTabs == {"newest", "custom"}
NoModels == [kind |-> "undefined", of |-> 0]
NoError == [kind |-> "undefined", of |-> 0]

PickerIdle ==
    /\ picker = "none" /\ ppc = "idle" /\ activeList = "popular"
    /\ hasOpenRouterKey = FALSE
    /\ listModels = [t \in FetchTabs |-> NoModels]
    /\ loadError = [t \in FetchTabs |-> NoError]
    /\ loading = [t \in FetchTabs |-> FALSE]
    /\ fetchSeq = [t \in FetchTabs |-> 0]
    /\ fetchController = [t \in FetchTabs |-> 0]
    /\ fetches = <<>>
    /\ canRender = TRUE /\ lastRender = "none"

SseIdle ==
    /\ sseBody = <<>> /\ sseRead = 0 /\ sseBuffer = <<>> /\ sseFull = <<>>
    /\ sseDeltas = <<>> /\ spc = "idle"

MaxCycles == 2
CycleSlots == 1..MaxCycles

ControllerIdle ==
    /\ monitoring = FALSE /\ hasAgent = FALSE
    /\ screen = 0 /\ lastContent = 0 /\ elapsed = 0
    /\ currentState = "busy"
    /\ waiters = 0 /\ waitsStarted = 0
    /\ cycles = [c \in CycleSlots |-> "free"]

AuxIdle == AdapterIdle /\ GateIdle /\ TurnIdle /\ PickerIdle /\ SseIdle /\ ControllerIdle

ExtractorStart == InitExtractor /\ ToolIdle /\ CallerIdle /\ ChatIdle /\ AuxIdle

FeedChunk == Feed /\ UNCHANGED <<toolVars, callerVars, chatVars, auxVars>>

FlushAtEnd == Flush /\ UNCHANGED <<toolVars, callerVars, chatVars, auxVars>>

NextExtractor == FeedChunk \/ FlushAtEnd

SpecExtractor == ExtractorStart /\ [][NextExtractor]_vars

(***************************************************************************)
(* Claims about the extractor                                              *)
(***************************************************************************)
\* Result of feeding the first n characters of the input in one single call.
OneShot(n) == feed(FreshParser, SubSeq(input, 1, n))

IsSuffixOf(u, s) == Len(u) <= Len(s) /\ SubSeq(s, Len(s) - Len(u) + 1, Len(s)) = u

\* C1: chunk-invariance. However the input fed so far was cut into chunks, the
\* concatenated visible output, the list of commands and the parser fields are
\* those of feeding the same text in one single feed() call, and the output of
\* the final flush() is the one flush() gives after that single call.
C1_ChunkInvariance ==
    LET one == OneShot(pos)
    IN  /\ visibleFeeds = one.visible
        /\ commandsAll = one.commands
        /\ phase = "feeding" =>
              /\ pending = one.pending
              /\ inCommand = one.inCommand
              /\ commandBuffer = one.commandBuffer
        /\ phase = "flushed" => flushVisible = flush(one).visible

\* C1 witness: an input holding a command was fed in more than one chunk that
\* produced output, and flushed.
C1_Witness ==
    /\ phase = "flushed"
    /\ Len(input) > 0
    /\ commandsAll # <<>>
    /\ visibleFeeds # <<>>
    /\ \E n \in 1..(Len(input) - 1) : OneShot(n).pending # <<>>
    /\ exampleStep = -1

\* C2: the input 'abc<command>def', however chunked, gives after flush() the
\* total visible text 'abc<command>def' and no command.
C2_UnterminatedRecovery ==
    (input = Unterminated /\ phase = "flushed") =>
        /\ visibleFeeds \o flushVisible = Unterminated
        /\ commandsAll = <<>>

\* The tag literal the parser is searching for.
SearchedTag == IF inCommand THEN closeTag ELSE openTag

\* Characters of the input released from `pending` so far.
Consumed == pos - Len(pending)

\* The latest feed() returned visible text that ends with the first n >= 1
\* characters of an occurrence of `tag` in the input whose last character has
\* not been fed yet.
LeaksPartial(tag) ==
    \E n \in 1..(Len(tag) - 1) :
        LET p == Consumed - n + 1
        IN  /\ p >= 1
            /\ p + Len(tag) - 1 <= Len(input)
            /\ p + Len(tag) - 1 > pos
            /\ SubSeq(input, p, p + Len(tag) - 1) = tag
            /\ IsSuffixOf(SubSeq(tag, 1, n), lastVisible)

\* C3 as stated: no feed() returns visible text holding the beginning of an
\* occurrence of either tag literal whose remainder arrives in a later chunk.
C3_NoPartialTagOfEitherLiteral ==
    phase = "feeding" => ~LeaksPartial(openTag) /\ ~LeaksPartial(closeTag)

\* C3 amended: no feed() returns visible text holding the beginning of an
\* occurrence of the literal being searched for (<command> outside a tag,
\* </command> inside) whose remainder arrives in a later chunk; the fed part of
\* such an occurrence is exactly what is held back in `pending`.
C3_NoPartialSearchedTag ==
    phase = "feeding" =>
        /\ ~LeaksPartial(SearchedTag)
        /\ \A p \in 1..pos :
              ( /\ p + Len(SearchedTag) - 1 <= Len(input)
                /\ p + Len(SearchedTag) - 1 > pos
                /\ SubSeq(input, p, p + Len(SearchedTag) - 1) = SearchedTag )
              => pending = SubSeq(input, p, pos)

\* C3 witness: the searched literal is split by the chunk boundary, in the
\* inside-tag state, after a feed() that returned visible text.
C3_Witness ==
    /\ phase = "feeding"
    /\ inCommand
    /\ lastVisible # <<>>
    /\ Len(pending) > 1
    /\ Consumed + Len(closeTag) <= Len(input)
    /\ SubSeq(input, Consumed + 1, Consumed + Len(closeTag)) = closeTag

\* C4: after every feed() `pending` is a proper prefix (possibly empty) of the
\* literal being searched for.
C4_PendingIsProperPrefix ==
    phase = "feeding" =>
        /\ Len(pending) < Len(SearchedTag)
        /\ pending = SubSeq(SearchedTag, 1, Len(pending))

\* C4 witness: a non-empty held-back prefix of the close literal.
C4_Witness ==
    /\ phase = "feeding" /\ pos > 0
    /\ inCommand
    /\ Len(pending) >= 2
    /\ commandBuffer # <<>>

\* The input without the delimiters of complete <command>...</command> pairs,
\* scanning left to right: the first open literal, then the first close literal
\* after it, and so on.  An open literal that is never closed stays.
RECURSIVE StripPairs(_)
StripPairs(s) ==
    LET o == indexOf(s, openTag)
    IN  IF o = -1 THEN s
        ELSE LET rest == sliceFrom(s, o + Len(openTag))
                 c == indexOf(rest, closeTag)
             IN  IF c = -1 THEN s
                 ELSE sliceTo(s, o) \o sliceTo(rest, c)
                      \o StripPairs(sliceFrom(rest, c + Len(closeTag)))

\* u is a subsequence of s (same characters, same order, gaps allowed)
RECURSIVE IsSubsequence(_, _)
IsSubsequence(u, s) ==
    IF u = <<>> THEN TRUE
    ELSE IF s = <<>> THEN FALSE
    ELSE IF Head(u) = Head(s) THEN IsSubsequence(Tail(u), Tail(s))
    ELSE IsSubsequence(u, Tail(s))

\* C5: after the last chunk and flush(), every input character outside the
\* delimiters of a matched pair appears in the total visible output, in input
\* order; when no tag is left open the output is exactly those characters.
C5_NothingDropped ==
    phase = "flushed" =>
        /\ IsSubsequence(StripPairs(input), visibleFeeds \o flushVisible)
        /\ ~OneShot(Len(input)).inCommand =>
              visibleFeeds \o flushVisible = StripPairs(input)

\* C5 witness: flush() had held-back text to emit, after a complete command.
C5_Witness ==
    /\ phase = "flushed"
    /\ flushVisible # <<>>
    /\ commandsAll # <<>>
    /\ Len(visibleFeeds) > 1

\* C6 as stated: the example chunks give visible text "Here's the command:  done"
\* and the single command "ls -la".
C6_ExampleRegionRemoved ==
    (input = Example /\ exampleStep = Len(ExampleChunks)) =>
        /\ visibleFeeds = <<"H","e","r","e","'","s"," ","t","h","e"," ","c","o","m","m","a","n","d",":"," "," ","d","o","n","e">>
        /\ commandsAll = << <<"l","s"," ","-","l","a">> >>

\* C6 amended: the example chunks give visible text
\* "Here's the command: ls -la done" (only the two delimiters are removed, the
\* command text stays in the visible stream) and the single command "ls -la".
C6_ExampleDelimitersRemoved ==
    (input = Example /\ exampleStep = Len(ExampleChunks)) =>
        /\ visibleFeeds = <<"H","e","r","e","'","s"," ","t","h","e"," ","c","o","m","m","a","n","d",":"," ","l","s"," ","-","l","a"," ","d","o","n","e">>
        /\ commandsAll = << <<"l","s"," ","-","l","a">> >>

\* C6 witness: the four example chunks were fed in that order.
C6_Witness ==
    /\ input = Example
    /\ exampleStep = Len(ExampleChunks)
    /\ pos = Len(Example)
    /\ commandsAll # <<>>

(***************************************************************************)
(* Tool loop of streamCustomOpenAICompatibleResponse (opts.webSearch)      *)
(*                                                                         *)
(* Texts are sequences of tokens; a literal text of the program is one     *)
(* token, so Len(t) > 0 says "non-empty" and trim() strips white space.    *)
(***************************************************************************)
toolMaxRounds == 3

\* Bound on the number of tool calls in one model response.
MaxCalls == 1

\* A JSON value where a string is expected: a string, or anything else
Str(t) == [str |-> TRUE, text |-> t]
NotAString == [str |-> FALSE, text |-> <<>>]

\* A missing id
NoId == <<>>

Queries == {"q1", "q2"}

\* function.arguments of a tool call: the JSON of an object with a query, text
\* that is not JSON, or the JSON of something that is no object (null, a
\* number, a string, an array)
ArgsFor(q) == [json |-> TRUE, object |-> TRUE, query |-> q]
ArgsMalformed == [json |-> FALSE, object |-> FALSE, query |-> ""]
ArgsNotObject == [json |-> TRUE, object |-> FALSE, query |-> ""]

\* The tool calls a model may put in a response (name, arguments, with an id
\* or without one).
CallKinds ==
    {[name |-> "web_search", arguments |-> ArgsFor(q), hasId |-> TRUE] : q \in Queries}
    \cup {[name |-> "web_search", arguments |-> ArgsMalformed, hasId |-> TRUE],
          [name |-> "web_search", arguments |-> ArgsNotObject, hasId |-> TRUE],
          [name |-> "web_search", arguments |-> ArgsFor("q1"), hasId |-> FALSE],
          [name |-> "other_tool", arguments |-> ArgsFor("q1"), hasId |-> TRUE],
          [name |-> "other_tool", arguments |-> ArgsMalformed, hasId |-> TRUE]}

RECURSIVE SeqsUpTo(_, _)
SeqsUpTo(S, n) ==
    IF n = 0 THEN {<<>>}
    ELSE LET prev == SeqsUpTo(S, n - 1)
         IN  prev \cup {Append(s, x) : s \in prev, x \in S}

\* message.tool_calls of the response of round r: each call has its own id
ToolCallLists(r) ==
    {[i \in 1..Len(ks) |-> [id |-> IF ks[i].hasId THEN <<r + 1, i>> ELSE NoId,
                             name |-> ks[i].name,
                             arguments |-> ks[i].arguments]]
       : ks \in SeqsUpTo(CallKinds, MaxCalls) \ {<<>>}}

AnswerText == <<"ok">>
Contents == {<<>>, <<" ">>, AnswerText}

\* Bodies of 2xx responses to a tool-enabled request of round r.
ToolPayloads(r) ==
    {[content |-> Str(c), output_text |-> NotAString, tool_calls |-> <<>>] : c \in Contents}
    \cup {[content |-> NotAString, output_text |-> o, tool_calls |-> <<>>]
            : o \in {NotAString, Str(AnswerText)}}
    \cup {[content |-> NotAString, output_text |-> NotAString, tool_calls |-> tc]
            : tc \in ToolCallLists(r)}

\* Outcomes of the forced-final request: the request fails, or message.content
ForcedOutcomes ==
    {[threw |-> TRUE, content |-> NotAString]}
    \cup {[threw |-> FALSE, content |-> c] : c \in {NotAString, Str(<<" ">>), Str(AnswerText)}}

\* What the instant-answer endpoint does with the request of one search:
\* the fetch rejects, a non-2xx status, a body that is not JSON, a JSON body
\* without any abstract or related topic, a JSON body with some.
InstantResponses == {"rejects", "not_ok", "bad_json", "no_items", "items"}

\* What the HTML endpoint does with the request of the fallback scrape
HtmlResponses == {"rejects", "not_ok", "no_matches", "matches"}

\* fetchHtmlSearchResults: the rows scraped, or the rejection of its fetch
fetchHtmlSearchResults(html) ==
    [threw |-> html = "rejects", rows |-> IF html = "matches" THEN 1 ELSE 0]

\* The JSON strings fetchSearchResults builds
SearchResult(query, error, results, source) ==
    [query |-> query, error |-> error, results |-> results, source |-> source]

\* The try block of fetchSearchResults: what it returns, or that it throws
fetchSearchResultsTry(query, instant, html) ==
    IF instant \in {"rejects", "bad_json"}
    THEN [threw |-> TRUE, value |-> SearchResult(query, "search_error", 0, "")]
    ELSE IF instant = "not_ok"
    THEN [threw |-> FALSE, value |-> SearchResult(query, "search_failed", 0, "")]
    ELSE IF instant = "items"
    THEN [threw |-> FALSE,
          value |-> SearchResult(query, "", 1, "duckduckgo_instant_answer")]
    ELSE LET htmlResults == fetchHtmlSearchResults(html)
         IN  IF htmlResults.threw
             THEN [threw |-> TRUE, value |-> SearchResult(query, "search_error", 0, "")]
             ELSE IF htmlResults.rows > 0
             THEN [threw |-> FALSE,
                   value |-> SearchResult(query, "", htmlResults.rows, "duckduckgo_html")]
             ELSE [threw |-> FALSE,
                   value |-> SearchResult(query, "no_results", 0, "duckduckgo_html")]

\* fetchSearchResults with the catch clause left out
fetchSearchResultsUncaught(query, instant, html) ==
    fetchSearchResultsTry(query, instant, html)

\* fetchSearchResults: whatever is thrown inside is caught and returned as a
\* search_error result
fetchSearchResults(query, instant, html) ==
    [threw |-> FALSE, value |-> fetchSearchResultsTry(query, instant, html).value]

MissingQueryResult == SearchResult("", "missing_query", 0, "")

\* compactWebSnippetFromPayload: a snippet text; the empty text stands for
\* undefined (the caller only tests `if (snippet)`)
compactWebSnippetFromPayload(result) ==
    IF result.results = 0 THEN <<>>
    ELSE <<"Query: ", result.query, "\n", "1. title">>

\* webSearchCache.has(query): the entries of the Map stored under the key
webSearchCacheEntriesNone(cache, query) == {}

webSearchCacheEntries(cache, query) ==
    {i \in 1..Len(cache) : cache[i].query = query}

\* try { JSON.parse(rawArgs) } catch { {} }, then parsedArgs?.query when it
\* is a string, trimmed, or ""
ParsedQuery(rawArgs) == IF rawArgs.json /\ rawArgs.object THEN rawArgs.query ELSE ""

\* tool_call_id: call?.id || `tool_${Date.now()}`
ToolCallId(call) == IF call.id = NoId THEN <<"tool_", "Date.now()">> ELSE call.id

Msg(role, content) ==
    [role |-> role, content |-> content, tool_calls |-> <<>>, tool_call_id |-> NoId]

\* The history the caller hands in: empty, opened by its own system prompt,
\* or an earlier exchange
Histories ==
    {<<>>,
     <<Msg("system", <<"system prompt of the caller">>)>>,
     <<Msg("user", <<"earlier prompt">>), Msg("assistant", <<"earlier answer">>)>>}

\* requestMessages before the loop: the default system prompt unless the
\* caller's messages hold a system message, the caller's messages, and the
\* web-search guidance (maid.ts 1535-1544)
InitialRequestMessages(msgs) ==
    (IF \E i \in 1..Len(msgs) : msgs[i].role = "system"
     THEN msgs
     ELSE <<Msg("system", <<"DEFAULT_CHAT_SYSTEM_PROMPT">>)>> \o msgs)
    \o <<Msg("system", <<"Web-search guidance">>)>>

\* requestMessages built by inserting into the caller's array itself
BuildRequestMessagesInPlace(msgs) ==
    [messages |-> InitialRequestMessages(msgs),
     requestMessages |-> InitialRequestMessages(msgs)]

\* requestMessages is a new array: the caller's array is left as it is
BuildRequestMessages(msgs) ==
    [messages |-> msgs, requestMessages |-> InitialRequestMessages(msgs)]

RECURSIVE Flatten(_)
Flatten(texts) == IF texts = <<>> THEN <<>> ELSE Head(texts) \o Flatten(Tail(texts))

\* if (fullResponse.length > 0) messages.push({role: "assistant", ...})
PushAssistant(msgs, fullResponse) ==
    IF Len(fullResponse) > 0 THEN Append(msgs, Msg("assistant", fullResponse)) ELSE msgs

\* the catch clause of streamChatResponse: isAbort = userStopped || /abort/i
CaughtOutcome(stopped, abortLike) ==
    IF stopped \/ abortLike THEN "stopped" ELSE "failed"

\* messages after the catch clause: the partial answer is kept when stopped
CaughtMessages(msgs, stopped, abortLike, fullResponse) ==
    IF CaughtOutcome(stopped, abortLike) = "stopped"
    THEN PushAssistant(msgs, fullResponse)
    ELSE msgs

\* mutant: one round too many
LoopContinuesInclusive(r) == r <= toolMaxRounds

\* for (let round = 0; round < toolMaxRounds; round++)
LoopContinues(r) == r < toolMaxRounds

\* finalContent of the no-tool-call branch (maid.ts 1739-1743)
FinalContent(payload) ==
    IF payload.content.str THEN payload.content.text
    ELSE IF payload.output_text.str THEN payload.output_text.text
    ELSE <<"JSON.stringify(payload)">>

\* fallbackMessages (maid.ts 1793-1795)
FallbackMessages(msgs) ==
    LET kept == SelectSeq(msgs, LAMBDA m : m.role # "tool")
    IN  [i \in 1..Len(kept) |-> Msg(kept[i].role, kept[i].content)]

\* snippetFallback (maid.ts 1827-1829)
SnippetFallback(snippets) ==
    IF Len(snippets) > 0
    THEN <<"I couldn't get the model to stop tool-calling, but here are the latest web results I found:\n\n">>
         \o snippets[1]
    ELSE <<"I couldn't complete web search: the model kept requesting tools and no usable results were returned.">>

\* streamChatResponse.onAnswerDelta: nothing once the user has stopped
OnAnswerDelta(delta) ==
    IF userStopped
    THEN UNCHANGED <<deltas, sawAnyAnswerDelta>>
    ELSE /\ sawAnyAnswerDelta' = TRUE
         /\ deltas' = Append(deltas, delta)

InitToolLoop ==
    /\ tpc = "start" /\ round = 0
    /\ requestMessages = <<>>
    /\ messages \in Histories
    /\ userStopped = FALSE /\ outcome = NoValue
    /\ callQueue = <<>> /\ webSnippets = <<>>
    /\ webSearchCache = <<>> /\ lastRequest = <<>>
    /\ toolRequests = 0 /\ forcedRequests = 0 /\ searchCalls = <<>>
    /\ deltas = <<>> /\ sawAnyAnswerDelta = FALSE
    /\ returned = <<>> /\ endedBy = NoValue

\* streamChatResponse pushes the prompt and calls
\* streamCustomOpenAICompatibleResponse, which builds requestMessages
\* (maid.ts 1321, 1415, 1534-1544)
StartCall ==
    /\ tpc = "start"
    /\ LET built == BuildRequestMessages(Append(messages, Msg("user", <<"prompt">>)))
       IN  /\ messages' = built.messages
           /\ requestMessages' = built.requestMessages
    /\ tpc' = "loop"
    /\ UNCHANGED <<round, callQueue, webSnippets, webSearchCache, lastRequest,
                   toolRequests, forcedRequests, searchCalls, deltas,
                   sawAnyAnswerDelta, returned, endedBy, userStopped, outcome>>

\* Esc while the call awaits a request or a search: stopStreaming()
\* (maid.ts 1341-1345)
EscDuringToolLoop ==
    /\ tpc \in {"awaitTool", "calls", "awaitForced"}
    /\ ~userStopped
    /\ userStopped' = TRUE
    /\ UNCHANGED <<toolVars, messages, outcome>>

\* doChatCompletion({..., tools: [webSearchTool], tool_choice: "auto"}) is sent
SendToolRequest ==
    /\ tpc = "loop"
    /\ LoopContinues(round)
    /\ toolRequests' = toolRequests + 1
    /\ lastRequest' = [tools |-> TRUE, messages |-> requestMessages]
    /\ tpc' = "awaitTool"
    /\ UNCHANGED <<round, requestMessages, callQueue, webSnippets, webSearchCache,
                   forcedRequests, searchCalls, deltas, sawAnyAnswerDelta,
                   returned, endedBy, callerVars>>

\* the tool-enabled request fails (non-2xx, network, aborted): the error
\* leaves the call and reaches the catch clause of streamChatResponse
\* (maid.ts 1485-1501)
ToolRequestThrows ==
    /\ tpc = "awaitTool"
    /\ tpc' = "threw"
    /\ \E abortLike \in BOOLEAN :
         /\ userStopped => abortLike
         /\ outcome' = CaughtOutcome(userStopped, abortLike)
         /\ messages' = CaughtMessages(messages, userStopped, abortLike, Flatten(deltas))
    /\ UNCHANGED <<round, requestMessages, callQueue, webSnippets, webSearchCache,
                   lastRequest, toolRequests, forcedRequests, searchCalls, deltas,
                   sawAnyAnswerDelta, returned, endedBy, userStopped>>

\* a response without tool calls: its content is returned (maid.ts 1738-1746)
ToolResponseFinal ==
    /\ tpc = "awaitTool"
    /\ ~userStopped
    /\ \E payload \in ToolPayloads(round) :
         /\ Len(payload.tool_calls) = 0
         /\ LET finalContent == FinalContent(payload)
            IN  /\ IF Len(finalContent) > 0
                   THEN OnAnswerDelta(finalContent)
                   ELSE UNCHANGED <<deltas, sawAnyAnswerDelta>>
                /\ returned' = finalContent
    /\ endedBy' = "no_tool_calls"
    /\ tpc' = "returned"
    /\ UNCHANGED <<round, requestMessages, callQueue, webSnippets, webSearchCache,
                   lastRequest, toolRequests, forcedRequests, searchCalls, callerVars>>

\* a response with tool calls: the assistant message is appended (maid.ts 1748-1752)
ToolResponseCalls ==
    /\ tpc = "awaitTool"
    /\ ~userStopped
    /\ \E payload \in ToolPayloads(round) :
         /\ Len(payload.tool_calls) > 0
         /\ requestMessages' = Append(requestMessages,
               [role |-> "assistant",
                content |-> IF payload.content.str THEN payload.content.text ELSE <<>>,
                tool_calls |-> payload.tool_calls,
                tool_call_id |-> NoId])
         /\ callQueue' = payload.tool_calls
    /\ tpc' = "calls"
    /\ UNCHANGED <<round, webSnippets, webSearchCache, lastRequest, toolRequests,
                   forcedRequests, searchCalls, deltas, sawAnyAnswerDelta,
                   returned, endedBy, callerVars>>

\* one iteration of `for (const call of toolCalls)` (maid.ts 1754-1791)
HandleCall ==
    /\ tpc = "calls"
    /\ callQueue # <<>>
    /\ LET call == Head(callQueue)
           query == ParsedQuery(call.arguments)
           cached == webSearchCacheEntries(webSearchCache, query)
       IN  IF call.name # "web_search"
           THEN UNCHANGED <<tpc, requestMessages, webSnippets, webSearchCache, searchCalls,
                            messages, outcome>>
           ELSE \E instant \in InstantResponses, html \in HtmlResponses :
                  LET fetched == query # "" /\ cached = {}
                      search == fetchSearchResults(query, instant, html)
                      result == IF query = "" THEN MissingQueryResult
                                ELSE IF cached # {}
                                THEN webSearchCache[CHOOSE i \in cached : TRUE].result
                                ELSE search.value
                      snippet == compactWebSnippetFromPayload(result)
                  IN  /\ ~fetched => (instant = "items" /\ html = "matches")
                      /\ (fetched /\ instant # "no_items") => html = "matches"
                      /\ (fetched /\ userStopped) =>
                            (instant = "rejects" \/ (instant = "no_items" /\ html = "rejects"))
                      /\ searchCalls' =
                            IF fetched
                            THEN Append(searchCalls, [query |-> query, instant |-> instant,
                                                      html |-> html])
                            ELSE searchCalls
                      /\ IF fetched /\ search.threw
                         THEN /\ tpc' = "threw"
                              /\ outcome' = CaughtOutcome(userStopped, FALSE)
                              /\ messages' = CaughtMessages(messages, userStopped, FALSE,
                                                            Flatten(deltas))
                              /\ UNCHANGED <<requestMessages, webSnippets, webSearchCache>>
                         ELSE /\ tpc' = tpc
                              /\ UNCHANGED <<messages, outcome>>
                              /\ webSearchCache' =
                                    IF fetched
                                    THEN Append(webSearchCache,
                                                [query |-> query, result |-> result])
                                    ELSE webSearchCache
                              /\ webSnippets' =
                                    IF Len(snippet) > 0 THEN Append(webSnippets, snippet)
                                    ELSE webSnippets
                              /\ requestMessages' = Append(requestMessages,
                                    [role |-> "tool", content |-> <<result>>,
                                     tool_calls |-> <<>>,
                                     tool_call_id |-> ToolCallId(call)])
    /\ callQueue' = Tail(callQueue)
    /\ UNCHANGED <<round, lastRequest, toolRequests, forcedRequests, deltas,
                   sawAnyAnswerDelta, returned, endedBy, userStopped>>

\* all calls of the response are handled: round++
EndRound ==
    /\ tpc = "calls"
    /\ callQueue = <<>>
    /\ round' = round + 1
    /\ tpc' = "loop"
    /\ UNCHANGED <<requestMessages, callQueue, webSnippets, webSearchCache, lastRequest,
                   toolRequests, forcedRequests, searchCalls, deltas, sawAnyAnswerDelta,
                   returned, endedBy, callerVars>>

\* the round limit is exhausted: the forced-final request (maid.ts 1793-1815)
SendForcedRequest ==
    /\ tpc = "loop"
    /\ ~LoopContinues(round)
    /\ forcedRequests' = forcedRequests + 1
    /\ lastRequest' =
          [tools |-> FALSE,
           messages |-> FallbackMessages(requestMessages)
                        \o <<Msg("system", <<"You must answer now using the provided web search snippets. Do not call tools.">>),
                             Msg("user", <<"Web search snippets">>)>>]
    /\ tpc' = "awaitForced"
    /\ UNCHANGED <<round, requestMessages, callQueue, webSnippets, webSearchCache,
                   toolRequests, searchCalls, deltas, sawAnyAnswerDelta, returned, endedBy,
                   callerVars>>

\* outcome of the forced-final request, and the snippet fallback (maid.ts 1816-1831)
ForcedResponse ==
    /\ tpc = "awaitForced"
    /\ \E forced \in ForcedOutcomes :
         LET forcedContent == IF forced.content.str THEN forced.content.text ELSE <<>>
         IN  /\ userStopped => forced.threw
             /\ IF ~forced.threw /\ Len(trim(forcedContent)) > 0
                THEN /\ OnAnswerDelta(forcedContent)
                     /\ returned' = forcedContent
                     /\ endedBy' = "forced_final"
                ELSE /\ OnAnswerDelta(SnippetFallback(webSnippets))
                     /\ returned' = SnippetFallback(webSnippets)
                     /\ endedBy' = "snippet_fallback"
    /\ tpc' = "returned"
    /\ UNCHANGED <<round, requestMessages, callQueue, webSnippets, webSearchCache,
                   lastRequest, toolRequests, forcedRequests, searchCalls, callerVars>>

\* streamChatResponse after the call returns: the re-emit and the completion
\* path (maid.ts 1432-1434, 1458-1484)
CallerReemit ==
    /\ tpc = "returned"
    /\ IF ~sawAnyAnswerDelta /\ Len(returned) > 0
       THEN OnAnswerDelta(returned)
       ELSE UNCHANGED <<deltas, sawAnyAnswerDelta>>
    /\ messages' = PushAssistant(messages, Flatten(deltas'))
    /\ outcome' = "completed"
    /\ tpc' = "done"
    /\ UNCHANGED <<round, requestMessages, callQueue, webSnippets, webSearchCache,
                   lastRequest, toolRequests, forcedRequests, searchCalls,
                   returned, endedBy, userStopped>>

ToolLoopStart == InitToolLoop /\ ExtractorIdle /\ ChatIdle /\ AuxIdle

NextToolLoop ==
    \/ StartCall /\ UNCHANGED <<extractorVars, chatVars, auxVars>>
    \/ EscDuringToolLoop /\ UNCHANGED <<extractorVars, chatVars, auxVars>>
    \/ SendToolRequest /\ UNCHANGED <<extractorVars, chatVars, auxVars>>
    \/ ToolRequestThrows /\ UNCHANGED <<extractorVars, chatVars, auxVars>>
    \/ ToolResponseFinal /\ UNCHANGED <<extractorVars, chatVars, auxVars>>
    \/ ToolResponseCalls /\ UNCHANGED <<extractorVars, chatVars, auxVars>>
    \/ HandleCall /\ UNCHANGED <<extractorVars, chatVars, auxVars>>
    \/ EndRound /\ UNCHANGED <<extractorVars, chatVars, auxVars>>
    \/ SendForcedRequest /\ UNCHANGED <<extractorVars, chatVars, auxVars>>
    \/ ForcedResponse /\ UNCHANGED <<extractorVars, chatVars, auxVars>>
    \/ CallerReemit /\ UNCHANGED <<extractorVars, chatVars, auxVars>>

SpecToolLoop == ToolLoopStart /\ [][NextToolLoop]_vars

(***************************************************************************)
(* Claims about the tool loop                                              *)
(***************************************************************************)
Finished == tpc \in {"returned", "done", "threw"}
HasReturned == tpc \in {"returned", "done"}

\* C7: at most toolMaxRounds (3) tool-enabled requests and at most one
\* forced-final request are issued, the forced-final one only after three
\* tool-enabled ones; when every response asked for a tool call (all three
\* rounds were completed) the call returns after exactly 3 tool-enabled
\* requests and exactly 1 forced-final request; once the call has ended no
\* further request is issued.
C7_RequestBound ==
    /\ [](/\ toolRequests <= toolMaxRounds
          /\ forcedRequests <= 1
          /\ forcedRequests = 1 => toolRequests = toolMaxRounds
          /\ (HasReturned /\ round = toolMaxRounds) =>
                (toolRequests = toolMaxRounds /\ forcedRequests = 1)
          /\ (HasReturned /\ round < toolMaxRounds) =>
                (toolRequests = round + 1 /\ forcedRequests = 0))
    /\ [][Finished => UNCHANGED <<toolRequests, forcedRequests, lastRequest>>]_vars

\* C7 witness: every response asked for a tool call and the call has returned.
C7_Witness ==
    /\ tpc = "done"
    /\ round = toolMaxRounds
    /\ toolRequests = 3 /\ forcedRequests = 1
    /\ Len(searchCalls) > 0

\* C8: the string returned by a web-search-enabled call is non-empty.
C8_ReturnsNonEmpty == HasReturned => Len(returned) > 0

\* The assistant message at index i of msgs has every tool call answered by a
\* later tool message carrying the call's id.
Answered(msgs, i) ==
    \A c \in 1..Len(msgs[i].tool_calls) :
        \E j \in (i + 1)..Len(msgs) :
            /\ msgs[j].role = "tool"
            /\ msgs[j].tool_call_id = ToolCallId(msgs[i].tool_calls[c])

\* C9: no request holds an assistant tool-call message with an unanswered call.
C9_EveryToolCallAnswered ==
    lastRequest # <<>> =>
        \A i \in 1..Len(lastRequest.messages) : Answered(lastRequest.messages, i)

\* C10: when the call ended in the no-tool-call branch, the content was
\* delivered to the answer-delta callback exactly once, re-emit of the caller
\* included, it is what the call returned, and no request followed the one
\* that was answered without tool calls.
C10_FinalContentDeliveredOnce ==
    (tpc = "done" /\ endedBy = "no_tool_calls") =>
        /\ deltas = <<returned>>
        /\ toolRequests = round + 1
        /\ forcedRequests = 0

\* The tool-role messages of the conversation that answer a search for query q
ToolAnswersFor(q) ==
    {i \in 1..Len(requestMessages) :
        /\ requestMessages[i].role = "tool"
        /\ requestMessages[i].content[1].query = q}

SearchFailed(s) ==
    \/ s.instant \in {"rejects", "not_ok", "bad_json"}
    \/ s.instant = "no_items" /\ s.html \in {"rejects", "not_ok", "no_matches"}

\* C12: every failed search is returned, not thrown, as an error-tagged
\* result without results; the step that ran the search appends that result
\* as the tool message of the call and stays in the loop over the calls.
C12_SearchFailureReported ==
    /\ [](\A i \in 1..Len(searchCalls) :
            /\ i <= Len(webSearchCache)
            /\ webSearchCache[i].query = searchCalls[i].query
            /\ webSearchCache[i].result.query = searchCalls[i].query
            /\ SearchFailed(searchCalls[i]) <=> webSearchCache[i].result.error # ""
            /\ SearchFailed(searchCalls[i]) => webSearchCache[i].result.results = 0)
    /\ [][Len(searchCalls') > Len(searchCalls) =>
            /\ tpc' = "calls"
            /\ callQueue' = Tail(callQueue)
            /\ Len(requestMessages') = Len(requestMessages) + 1
            /\ requestMessages'[Len(requestMessages')].role = "tool"
            /\ requestMessages'[Len(requestMessages')].content =
                  <<webSearchCache'[Len(webSearchCache')].result>>]_vars

\* a search failed in the HTML fallback and the call still came to its end
C12_Witness ==
    /\ tpc = "done"
    /\ \E i \in 1..Len(searchCalls) :
          /\ searchCalls[i].instant = "no_items"
          /\ searchCalls[i].html = "rejects"
          /\ \E m \in 1..Len(requestMessages) :
                /\ requestMessages[m].role = "tool"
                /\ requestMessages[m].content[1].error = "search_error"

\* C13: in every request sent after a response with tool calls, each call of
\* that response whose arguments are not the JSON of an object is answered by
\* a later tool message for its id, and that message reports the missing
\* query of an empty argument object.
C13_MalformedArgumentsAnswered ==
    lastRequest # <<>> =>
        \A i \in 1..Len(lastRequest.messages) :
           \A c \in 1..Len(lastRequest.messages[i].tool_calls) :
              LET call == lastRequest.messages[i].tool_calls[c]
              IN  ~(call.arguments.json /\ call.arguments.object) =>
                     \E j \in (i + 1)..Len(lastRequest.messages) :
                        /\ lastRequest.messages[j].role = "tool"
                        /\ lastRequest.messages[j].tool_call_id = ToolCallId(call)
                        /\ lastRequest.messages[j].content = <<MissingQueryResult>>

\* C19: a turn during which the user stopped ends as "stopped", never as
\* "completed" or "failed", whichever request was in flight at the stop.
C19_StopEndsStopped ==
    (userStopped /\ outcome # NoValue) => outcome = "stopped"

\* C20: every step of a call leaves the messages the caller's array held
\* before it at their indexes, unchanged; the array only grows at its end.
C20_MessagesAppendOnly ==
    [][/\ Len(messages') >= Len(messages)
       /\ SubSeq(messages', 1, Len(messages)) = messages]_vars

\* a turn on top of an earlier exchange ended with its answer appended
C20_Witness ==
    /\ outcome = "completed"
    /\ Len(messages) = 4
    /\ messages[1].content = <<"earlier prompt">>
    /\ messages[3] = Msg("user", <<"prompt">>)
    /\ messages[4].role = "assistant"

(***************************************************************************)
(* streamChatResponse over a streamed answer: reasoningStream through the  *)
(* OpenRouter or the OpenAI adapter, or the streamed response of a custom  *)
(* endpoint without web search (maid.ts 1310-1518, 1834-1882)              *)
(***************************************************************************)
Providers == {"openrouter", "openai", "custom"}

\* whether the path hands opts.signal to its request: the OpenRouter adapter
\* (create(..., {signal})) and the custom endpoint (fetch(..., {signal})) do,
\* the OpenAI adapter calls client.responses.create(body) without it
PassesSignal(p) == p \in {"openrouter", "custom"}

\* pendingAnswerTail keeps the last 64 characters unwritten
answerTailChars == 64

\* mutant: the callback keeps taking deltas after the stop
onAnswerDeltaIgnoresNever(stopped) == FALSE

\* onAnswerDelta: if (userStopped) return;
onAnswerDeltaIgnores(stopped) == stopped

\* onReasoningDelta: if (userStopped) return;
onReasoningDeltaIgnores(stopped) == stopped

\* pendingAnswerTail += visible; all but its last 64 characters are written
RenderTail(tail, visible) ==
    LET t == tail \o visible
    IN  IF Len(t) > answerTailChars
        THEN [written |-> SubSeq(t, 1, Len(t) - answerTailChars),
              tail |-> SubSeq(t, Len(t) - answerTailChars + 1, Len(t))]
        ELSE [written |-> <<>>, tail |-> t]

\* longest answer text a backend streams
MaxAnswerChars == 10

InitChat ==
    /\ InitExtractor
    /\ Len(input) <= MaxAnswerChars
    /\ provider \in Providers
    /\ cpc = "start" /\ transport = "closed"
    /\ rawResponse = <<>> /\ pendingAnswerTail = <<>> /\ rendered = <<>>
    /\ sawReasoning = FALSE /\ backendAfterStop = FALSE
    /\ messages = <<>>
    /\ userStopped = FALSE /\ outcome = NoValue

\* the prompt is pushed and the request of the adapter is sent
\* (maid.ts 1321, 1414-1456)
StartStream ==
    /\ cpc = "start"
    /\ messages' = Append(messages, Msg("user", <<"prompt">>))
    /\ cpc' = "connecting"
    /\ transport' = "open"
    /\ UNCHANGED <<extractorVars, userStopped, outcome, provider, rawResponse,
                   pendingAnswerTail, rendered, sawReasoning, backendAfterStop>>

\* Esc: stopStreaming() sets userStopped and aborts the controller; the
\* request is cancelled when the path handed it the signal (maid.ts 1341-1349)
EscDuringStream ==
    /\ cpc \in {"connecting", "streaming"}
    /\ ~userStopped
    /\ userStopped' = TRUE
    /\ transport' = IF PassesSignal(provider) THEN "cancelled" ELSE transport
    /\ UNCHANGED <<extractorVars, messages, outcome, provider, cpc, rawResponse,
                   pendingAnswerTail, rendered, sawReasoning, backendAfterStop>>

\* the backend answers the request: the stream is open
StreamOpens ==
    /\ cpc = "connecting"
    /\ transport = "open"
    /\ cpc' = "streaming"
    /\ backendAfterStop' = (backendAfterStop \/ userStopped)
    /\ UNCHANGED <<extractorVars, callerVars, provider, transport, rawResponse,
                   pendingAnswerTail, rendered, sawReasoning>>

\* the next chunk of the answer arrives: onAnswerDelta(delta) (maid.ts 1380-1412)
DeliverAnswerDelta ==
    /\ cpc = "streaming"
    /\ transport = "open"
    /\ IF onAnswerDeltaIgnores(userStopped)
       THEN /\ pos < Len(input)
            /\ \E k \in 1..(Len(input) - pos) : pos' = pos + k
            /\ UNCHANGED <<input, pending, inCommand, commandBuffer, lastVisible,
                           visibleFeeds, flushVisible, commandsAll, phase, exampleStep,
                           rawResponse, pendingAnswerTail, rendered>>
       ELSE /\ Feed
            /\ rawResponse' = rawResponse \o SubSeq(input, pos + 1, pos')
            /\ LET r == RenderTail(pendingAnswerTail, lastVisible')
               IN  /\ pendingAnswerTail' = r.tail
                   /\ rendered' = rendered \o r.written
    /\ backendAfterStop' = (backendAfterStop \/ userStopped)
    /\ UNCHANGED <<callerVars, provider, cpc, transport, sawReasoning>>

\* a reasoning delta arrives: onReasoningDelta(delta) (maid.ts 1447-1453)
DeliverReasoningDelta ==
    /\ cpc = "streaming"
    /\ transport = "open"
    /\ provider # "custom"
    /\ sawReasoning' = IF onReasoningDeltaIgnores(userStopped) THEN sawReasoning ELSE TRUE
    /\ backendAfterStop' = (backendAfterStop \/ userStopped)
    /\ UNCHANGED <<extractorVars, callerVars, provider, cpc, transport, rawResponse,
                   pendingAnswerTail, rendered>>

\* the completion path of streamChatResponse: flush the parser, write what
\* was not written yet, push the answer (maid.ts 1458-1484)
CompletionPath ==
    LET r == flush(Parser)
        cleanedResponse == visibleFeeds \o r.visible
    IN  /\ pending' = r.pending
        /\ inCommand' = r.inCommand
        /\ commandBuffer' = r.commandBuffer
        /\ lastVisible' = r.visible
        /\ flushVisible' = r.visible
        /\ phase' = "flushed"
        /\ rendered' = rendered \o sliceFrom(cleanedResponse, Len(rendered))
        /\ pendingAnswerTail' = <<>>
        /\ messages' = PushAssistant(messages, cleanedResponse)
        /\ outcome' = "completed"
        /\ cpc' = "settled"
        /\ transport' = "closed"
        /\ UNCHANGED <<input, pos, visibleFeeds, commandsAll, exampleStep, userStopped,
                       provider, rawResponse, sawReasoning>>

\* the catch clause of streamChatResponse (maid.ts 1485-1501)
CatchPath(abortLike) ==
    /\ outcome' = CaughtOutcome(userStopped, abortLike)
    /\ messages' = CaughtMessages(messages, userStopped, abortLike, visibleFeeds)
    /\ IF CaughtOutcome(userStopped, abortLike) = "stopped"
       THEN /\ rendered' = rendered \o pendingAnswerTail
            /\ pendingAnswerTail' = <<>>
       ELSE UNCHANGED <<rendered, pendingAnswerTail>>
    /\ cpc' = "settled"
    /\ transport' = "closed"
    /\ UNCHANGED <<extractorVars, userStopped, provider, rawResponse, sawReasoning>>

\* the backend ends the stream: the adapter resolves
StreamEnds ==
    /\ cpc = "streaming"
    /\ transport = "open"
    /\ pos = Len(input)
    /\ backendAfterStop' = (backendAfterStop \/ userStopped)
    /\ CompletionPath

\* the cancelled request settles. Before the stream is open the request
\* rejects on both paths; on the open stream reader.read() of the custom
\* path rejects, and the iterator of the SDK stream the OpenRouter adapter
\* loops over either throws or just ends.
StreamAborted ==
    /\ cpc \in {"connecting", "streaming"}
    /\ transport = "cancelled"
    /\ \E iteratorThrows \in BOOLEAN :
         /\ (cpc = "connecting" \/ provider = "custom") => iteratorThrows
         /\ IF iteratorThrows THEN CatchPath(TRUE) ELSE CompletionPath
    /\ UNCHANGED backendAfterStop

\* the request or the stream fails: network error, non-2xx status
StreamFails ==
    /\ cpc \in {"connecting", "streaming"}
    /\ transport = "open"
    /\ \E abortLike \in BOOLEAN :
         /\ userStopped => abortLike
         /\ CatchPath(abortLike)
    /\ UNCHANGED backendAfterStop

ChatStart == InitChat /\ ToolIdle /\ AuxIdle

NextChat ==
    \/ StartStream /\ UNCHANGED <<toolVars, auxVars>>
    \/ EscDuringStream /\ UNCHANGED <<toolVars, auxVars>>
    \/ StreamOpens /\ UNCHANGED <<toolVars, auxVars>>
    \/ DeliverAnswerDelta /\ UNCHANGED <<toolVars, auxVars>>
    \/ DeliverReasoningDelta /\ UNCHANGED <<toolVars, auxVars>>
    \/ StreamEnds /\ UNCHANGED <<toolVars, auxVars>>
    \/ StreamAborted /\ UNCHANGED <<toolVars, auxVars>>
    \/ StreamFails /\ UNCHANGED <<toolVars, auxVars>>

SpecChat == ChatStart /\ [][NextChat]_vars

(***************************************************************************)
(* Claims about stopping a streamed answer                                 *)
(***************************************************************************)
\* the partial answer the turn left in the history, empty when none was pushed
KeptAnswer ==
    IF Len(messages) >= 2 /\ messages[Len(messages)].role = "assistant"
    THEN messages[Len(messages)].content
    ELSE <<>>

\* C14: when a stopped turn has ended, the answer kept in the history is
\* exactly the text onAnswerDelta had taken before the stop.
C14_StopKeepsDeliveredText ==
    (userStopped /\ outcome = "stopped") => KeptAnswer = rawResponse

\* C16: between the stop and the end of the turn the call consumes no event
\* of the backend: no opened stream, no chunk, no end of stream.
C16_SettlesWithoutBackend == ~backendAfterStop

C18_SignalReachesTransport ==
    (userStopped /\ outcome = NoValue) => transport = "cancelled"

(***************************************************************************)
(* Provider adapters: reasoningStream of llm/providers                     *)
(***************************************************************************)
Adapters == {"openrouter", "openai", "anthropic", "google"}

\* ReasoningEffort, and "unset" for a caller that passes none
Efforts == {"off", "low", "medium", "high", "unset"}

\* stream events one call handles
MaxChunks == 2

\* the destructuring default `effort = ReasoningEffort.Medium`
EffortOrDefault(e) == IF e = "unset" THEN "medium" ELSE e

Max(a, b) == IF a > b THEN a ELSE b

getThinkingBudget(e) ==
    CASE e = "off" -> 0
      [] e = "low" -> 5000
      [] e = "medium" -> 10000
      [] e = "high" -> 20000
      [] OTHER -> 10000

maxTokensFixed(budgetTokens) == 16000

\* max_tokens of the Anthropic request
maxTokens(budgetTokens) == Max(16000, budgetTokens + 6000)

thinkingAttachedAlways(e, budgetTokens) == TRUE

\* the condition under which requestParams.thinking is set
thinkingAttached(e, budgetTokens) == e # "off" /\ budgetTokens > 0

\* requestParams of the Anthropic adapter
AnthropicRequest(e) ==
    LET budgetTokens == getThinkingBudget(e)
    IN  [max_tokens |-> maxTokens(budgetTokens),
         thinking |-> IF thinkingAttached(e, budgetTokens)
                      THEN [attached |-> TRUE, budget_tokens |-> budgetTokens]
                      ELSE [attached |-> FALSE, budget_tokens |-> 0],
         reasoning |-> "none"]

\* what the quick model-list call can give: it fails, the model is not in the
\* list, or it is, with or without reasoning among its supported parameters.
\* The other adapters make no such call.
ModelLookups(a) ==
    IF a = "openrouter"
    THEN {"failed", "notFound", "supported", "unsupported"}
    ELSE {"none"}

\* includeReasoning: true at first and when the call throws; otherwise
\* whether (m?.supported_parameters || []) has a reasoning parameter
includeReasoningOf(lookup) ==
    CASE lookup = "failed" -> TRUE
      [] lookup = "supported" -> TRUE
      [] lookup = "unsupported" -> FALSE
      [] lookup = "notFound" -> FALSE
      [] OTHER -> TRUE

\* requestBody of the OpenRouter adapter: reasoning config when the model
\* supports it
OpenRouterRequest(e, includeReasoning) ==
    [max_tokens |-> 0, thinking |-> [attached |-> FALSE, budget_tokens |-> 0],
     reasoning |-> IF ~includeReasoning THEN "none"
                   ELSE IF e = "off" THEN "exclude" ELSE e]

\* body of the OpenAI adapter: body.reasoning = { effort, summary }
OpenAIRequest(e) ==
    [max_tokens |-> 0, thinking |-> [attached |-> FALSE, budget_tokens |-> 0],
     reasoning |-> e]

shouldIncludeThoughts(e) == e # "unset" /\ e # "off"

\* streamConfig of the Google adapter
GoogleRequest(e) ==
    [max_tokens |-> 0, thinking |-> [attached |-> FALSE, budget_tokens |-> 0],
     reasoning |-> IF shouldIncludeThoughts(e) THEN "includeThoughts" ELSE "none"]

Request(a, e, includeReasoning) ==
    CASE a = "openrouter" -> OpenRouterRequest(EffortOrDefault(e), includeReasoning)
      [] a = "openai" -> OpenAIRequest(EffortOrDefault(e))
      [] a = "anthropic" -> AnthropicRequest(EffortOrDefault(e))
      [] OTHER -> GoogleRequest(e)

\* the environment variable each adapter's getClient reads
CredentialEnv(a) ==
    CASE a = "openrouter" -> "OPENROUTER_API_KEY"
      [] a = "openai" -> "OPENAI_API_KEY"
      [] a = "anthropic" -> "ANTHROPIC_API_KEY"
      [] OTHER -> "GOOGLE_API_KEY"

\* the message of the Error each getClient throws, as words
MissingCredentialError(a) ==
    CASE a = "openrouter" -> <<"Missing", "OPENROUTER_API_KEY">>
      [] a = "openai" -> <<"Missing", "OPENAI_API_KEY">>
      [] a = "anthropic" -> <<"Missing", "ANTHROPIC_API_KEY">>
      [] OTHER -> <<"Missing", "GOOGLE_API_KEY">>

getClientLazy(a, has) == [threw |-> FALSE, error |-> <<>>]

getClient(a, has) ==
    IF ~has
    THEN [threw |-> TRUE, error |-> MissingCredentialError(a)]
    ELSE [threw |-> FALSE, error |-> <<>>]

\* the network requests a call with a client issues, in order
NetworkOf(a) ==
    CASE a = "openrouter" -> <<"models.list", "chat.completions.create">>
      [] a = "openai" -> <<"responses.create">>
      [] a = "anthropic" -> <<"messages.stream">>
      [] OTHER -> <<"models.generateContentStream">>

\* ---- usage on the wire ----
\* usage object of an event; prompt_tokens / completion_tokens of the
\* chat-completions wire are written input_tokens / output_tokens
WireUsage(i, o, r, t) ==
    [input_tokens |-> i, output_tokens |-> o, reasoning_tokens |-> r,
     total_tokens |-> t]

EmptyUsage == WireUsage(Undefined, Undefined, Undefined, Undefined)

WireUsages ==
    { WireUsage(Num(1), Num(1), Num(1), Num(2)),
      WireUsage(Num(2), Num(2), Num(2), Num(4)),
      WireUsage(Undefined, Num(3), Undefined, Undefined) }

\* the last number reported per field, after one more usage object
Report(rep, u) ==
    [inputTokens |-> IF u.input_tokens.kind = "number" THEN u.input_tokens
                     ELSE rep.inputTokens,
     outputTokens |-> IF u.output_tokens.kind = "number" THEN u.output_tokens
                      ELSE rep.outputTokens,
     reasoningTokens |-> IF u.reasoning_tokens.kind = "number"
                         THEN u.reasoning_tokens ELSE rep.reasoningTokens,
     totalTokens |-> IF u.total_tokens.kind = "number" THEN u.total_tokens
                     ELSE rep.totalTokens]

\* JavaScript `a + b` on numbers and undefined
Plus(a, b) ==
    IF a.kind = "number" /\ b.kind = "number" THEN Num(a.value + b.value) ELSE NaN

\* JavaScript `a || 0`
OrZero(a) == IF a.kind = "number" THEN a ELSE Num(0)

\* JavaScript `a ?? b`
Coalesce(a, b) == IF a.kind = "undefined" THEN b ELSE a

\* ---- the locals of one call ----
Locals ==
    [thinking |-> thinking, finalAnswer |-> finalAnswer,
     answerDeltas |-> answerDeltas, reasoningDeltas |-> reasoningDeltas,
     processedReasoningIds |-> processedReasoningIds, usage |-> usage,
     emittedIds |-> emittedIds]

FreshLocals ==
    [thinking |-> <<>>, finalAnswer |-> <<>>,
     answerDeltas |-> <<>>, reasoningDeltas |-> <<>>,
     processedReasoningIds |-> {}, usage |-> NoUsage,
     emittedIds |-> <<>>]

\* opts.onReasoningDelta(delta)
onReasoningDelta(l, delta) ==
    [l EXCEPT !.reasoningDeltas = Append(@, delta)]

\* opts.onAnswerDelta(delta)
onAnswerDelta(l, delta) ==
    [l EXCEPT !.answerDeltas = Append(@, delta)]

\* ---- OpenRouter adapter ----
ReasoningDetails ==
    { [id |-> "i1", type |-> "reasoning.text", text |-> <<"r">>, summary |-> <<>>],
      [id |-> "i2", type |-> "reasoning.summary", text |-> <<>>, summary |-> <<"s">>],
      [id |-> "", type |-> "reasoning.text", text |-> <<"n">>, summary |-> <<>>],
      [id |-> "i1", type |-> "reasoning.encrypted", text |-> <<>>, summary |-> <<>>] }

\* delta.reasoning_details: absent, empty, one part, or the same part twice
DetailFields ==
    { [present |-> FALSE, items |-> <<>>], [present |-> TRUE, items |-> <<>>] }
    \cup { [present |-> TRUE, items |-> <<d>>] : d \in ReasoningDetails }
    \cup { [present |-> TRUE, items |-> <<d, d>>] : d \in ReasoningDetails }

OpenRouterChunks ==
    { [type |-> "chunk", hasDelta |-> TRUE, details |-> d, reasoning |-> r,
       content |-> <<>>, hasUsage |-> FALSE, usage |-> EmptyUsage] :
         d \in DetailFields, r \in {<<>>, <<"l">>} }
    \cup
    { [type |-> "chunk", hasDelta |-> TRUE,
       details |-> [present |-> FALSE, items |-> <<>>], reasoning |-> r,
       content |-> <<"c">>, hasUsage |-> FALSE, usage |-> EmptyUsage] :
         r \in {<<>>, <<"l">>} }
    \cup
    { [type |-> "chunk", hasDelta |-> h,
       details |-> [present |-> FALSE, items |-> <<>>], reasoning |-> <<>>,
       content |-> <<>>, hasUsage |-> TRUE, usage |-> u] :
         h \in BOOLEAN, u \in WireUsages }

isDuplicateNever(id, seen) == FALSE

\* reasoningDetail.id && processedReasoningIds.has(reasoningDetail.id)
isDuplicate(id, seen) == id # "" /\ id \in seen

\* thinking += text; writeReasoningDelta(text); if (id) processedReasoningIds.add(id)
emitDetail(l, text, id) ==
    LET told == onReasoningDelta([l EXCEPT !.thinking = @ \o text], text)
    IN  IF id = "" THEN told
        ELSE [told EXCEPT !.processedReasoningIds = @ \cup {id},
                          !.emittedIds = Append(@, id)]

\* the loop over delta.reasoning_details
RECURSIVE handleReasoningDetails(_, _)
handleReasoningDetails(l, items) ==
    IF items = <<>> THEN l
    ELSE LET d == Head(items)
             rest == Tail(items)
         IN  IF isDuplicate(d.id, l.processedReasoningIds)
             THEN handleReasoningDetails(l, rest)
             ELSE IF d.type = "reasoning.text" /\ d.text # <<>>
             THEN handleReasoningDetails(emitDetail(l, d.text, d.id), rest)
             ELSE IF d.type = "reasoning.summary" /\ d.summary # <<>>
             THEN handleReasoningDetails(emitDetail(l, d.summary, d.id), rest)
             ELSE handleReasoningDetails(l, rest)

\* one iteration of the for-await loop of the OpenRouter adapter
openrouterHandleChunk(l, chunk) ==
    IF ~chunk.hasDelta THEN l
    ELSE
      LET afterReasoning ==
              IF chunk.details.present /\ Len(chunk.details.items) > 0
              THEN handleReasoningDetails(l, chunk.details.items)
              ELSE IF chunk.reasoning # <<>>
              THEN onReasoningDelta([l EXCEPT !.thinking = @ \o chunk.reasoning],
                                    chunk.reasoning)
              ELSE l
          afterContent ==
              IF chunk.content # <<>>
              THEN onAnswerDelta([afterReasoning EXCEPT
                                     !.finalAnswer = @ \o chunk.content],
                                 chunk.content)
              ELSE afterReasoning
      IN  IF chunk.hasUsage
          THEN [afterContent EXCEPT
                  !.usage = [inputTokens |-> chunk.usage.input_tokens,
                             outputTokens |-> chunk.usage.output_tokens,
                             totalTokens |-> chunk.usage.total_tokens,
                             reasoningTokens |->
                                 IF chunk.usage.reasoning_tokens.kind # "undefined"
                                 THEN chunk.usage.reasoning_tokens
                                 ELSE @.reasoningTokens]]
          ELSE afterContent

\* ---- OpenAI adapter (Responses events) ----
OpenAIEvents ==
    { [type |-> t, delta |-> d, hasUsage |-> FALSE, usage |-> EmptyUsage] :
         t \in {"response.reasoning_summary_text.delta",
                "response.output_text.delta"},
         d \in {<<>>, <<"a">>} }
    \cup
    { [type |-> t, delta |-> <<>>, hasUsage |-> FALSE, usage |-> EmptyUsage] :
         t \in {"response.output_text.done", "response.failed",
                "response.completed", "response.incomplete"} }
    \cup
    { [type |-> t, delta |-> <<>>, hasUsage |-> TRUE, usage |-> u] :
         t \in {"response.completed", "response.incomplete"}, u \in WireUsages }

\* one iteration of the for-await loop of the OpenAI adapter
openaiHandleEvent(l, event) ==
    CASE event.type = "response.reasoning_summary_text.delta" ->
            onReasoningDelta([l EXCEPT !.thinking = @ \o event.delta], event.delta)
      [] event.type = "response.output_text.delta" ->
            onAnswerDelta([l EXCEPT !.finalAnswer = @ \o event.delta], event.delta)
      [] event.type = "response.completed" ->
            [l EXCEPT !.usage = [inputTokens |-> event.usage.input_tokens,
                                 outputTokens |-> event.usage.output_tokens,
                                 reasoningTokens |-> event.usage.reasoning_tokens,
                                 totalTokens |-> event.usage.total_tokens]]
      [] event.type = "response.incomplete" ->
            [l EXCEPT !.usage =
                [inputTokens |-> Coalesce(event.usage.input_tokens, @.inputTokens),
                 outputTokens |-> Coalesce(event.usage.output_tokens, @.outputTokens),
                 reasoningTokens |->
                     Coalesce(event.usage.reasoning_tokens, @.reasoningTokens),
                 totalTokens |-> Coalesce(event.usage.total_tokens, @.totalTokens)]]
      [] OTHER -> l

\* ---- Anthropic adapter (message stream events) ----
AnthropicUsages ==
    { WireUsage(Num(1), Undefined, Undefined, Undefined),
      WireUsage(Undefined, Num(2), Undefined, Undefined),
      WireUsage(Num(1), Num(2), Undefined, Undefined) }

AnthropicEvents ==
    { [type |-> "message_start", deltaType |-> "", text |-> <<>>,
       hasUsage |-> h, usage |-> u] :
         h \in BOOLEAN, u \in {WireUsage(Num(1), Undefined, Undefined, Undefined)} }
    \cup
    { [type |-> "content_block_delta", deltaType |-> dt, text |-> t,
       hasUsage |-> FALSE, usage |-> EmptyUsage] :
         dt \in {"text_delta", "thinking_delta"}, t \in {<<>>, <<"a">>} }
    \cup
    { [type |-> "message_delta", deltaType |-> "", text |-> <<>>,
       hasUsage |-> FALSE, usage |-> EmptyUsage] }
    \cup
    { [type |-> "message_delta", deltaType |-> "", text |-> <<>>,
       hasUsage |-> TRUE, usage |-> u] : u \in AnthropicUsages }

\* writeReasoningDelta of the Anthropic and Google adapters
writeReasoningDelta(l, delta) ==
    onReasoningDelta([l EXCEPT !.thinking = @ \o delta], delta)

\* writeAnswerDelta of the Anthropic and Google adapters
writeAnswerDelta(l, delta) ==
    onAnswerDelta([l EXCEPT !.finalAnswer = @ \o delta], delta)

\* one iteration of the for-await loop of the Anthropic adapter
anthropicHandleEvent(l, event) ==
    IF event.type = "message_start"
    THEN IF event.hasUsage
         THEN [l EXCEPT !.usage.inputTokens = event.usage.input_tokens]
         ELSE l
    ELSE
      LET afterText ==
              IF event.type = "content_block_delta" /\ event.deltaType = "text_delta"
                 /\ event.text # <<>>
              THEN writeAnswerDelta(l, event.text)
              ELSE l
          afterThinking ==
              IF event.deltaType = "thinking_delta" /\ event.text # <<>>
              THEN writeReasoningDelta(afterText, event.text)
              ELSE afterText
      IN  IF event.type = "message_delta" /\ event.hasUsage
          THEN [afterThinking EXCEPT
                  !.usage.outputTokens = event.usage.output_tokens,
                  !.usage.totalTokens =
                      Plus(event.usage.input_tokens, event.usage.output_tokens)]
          ELSE afterThinking

\* stream.finalMessage() and the usage taken from it
anthropicFinalMessage(l, hasUsage, u) ==
    IF hasUsage
    THEN [l EXCEPT !.usage.inputTokens = u.input_tokens,
                   !.usage.outputTokens = u.output_tokens,
                   !.usage.totalTokens =
                       Plus(OrZero(u.input_tokens), OrZero(u.output_tokens))]
    ELSE l

\* ---- Google adapter ----
GoogleParts ==
    { [text |-> <<"a">>, thought |-> FALSE], [text |-> <<"r">>, thought |-> TRUE],
      [text |-> <<>>, thought |-> FALSE] }

GoogleEvents ==
    { [type |-> "event", hasParts |-> TRUE, parts |-> ps, text |-> <<>>] :
         ps \in {<<>>} \cup { <<p>> : p \in GoogleParts }
                \cup { <<p, q>> : p \in GoogleParts, q \in GoogleParts } }
    \cup
    { [type |-> "event", hasParts |-> FALSE, parts |-> <<>>, text |-> t] :
         t \in {<<>>, <<"a">>} }

\* the loop over the parts of one event
RECURSIVE googleHandleParts(_, _)
googleHandleParts(l, parts) ==
    IF parts = <<>> THEN l
    ELSE LET part == Head(parts)
             rest == Tail(parts)
         IN  IF part.text = <<>>
             THEN googleHandleParts(l, rest)
             ELSE IF part.thought
             THEN googleHandleParts(
                      writeReasoningDelta([l EXCEPT !.thinking = @ \o part.text],
                                          part.text), rest)
             ELSE googleHandleParts(
                      writeAnswerDelta([l EXCEPT !.finalAnswer = @ \o part.text],
                                       part.text), rest)

\* one iteration of the for-await loop of the Google adapter
googleHandleEvent(l, event) ==
    IF event.hasParts
    THEN googleHandleParts(l, event.parts)
    ELSE IF event.text # <<>>
    THEN writeAnswerDelta([l EXCEPT !.finalAnswer = @ \o event.text], event.text)
    ELSE l

\* ---- the call ----
SetLocals(l) ==
    /\ thinking' = l.thinking
    /\ finalAnswer' = l.finalAnswer
    /\ answerDeltas' = l.answerDeltas
    /\ reasoningDeltas' = l.reasoningDeltas
    /\ processedReasoningIds' = l.processedReasoningIds
    /\ usage' = l.usage
    /\ emittedIds' = l.emittedIds

InitAdapter ==
    /\ adapter \in Adapters
    /\ effort \in Efforts
    /\ hasCredential \in BOOLEAN
    /\ apc = "start"
    /\ network = <<>> /\ adapterError = <<>> /\ requestParams = NoRequest
    /\ modelLookup = "none"
    /\ thinking = <<>> /\ finalAnswer = <<>>
    /\ answerDeltas = <<>> /\ reasoningDeltas = <<>>
    /\ processedReasoningIds = {} /\ usage = NoUsage
    /\ lastChunk = NoChunk /\ chunkCount = 0
    /\ isFirstCall = TRUE /\ emittedIds = <<>> /\ seenEarlier = {}
    /\ reported = NoUsage

\* reasoningStream up to the first stream event: the client, the request,
\* the locals, and the request sent.  A caller may call again once a call has
\* returned.
AdapterStart ==
    /\ apc = "start" \/ (apc = "returned" /\ isFirstCall)
    /\ isFirstCall' = (apc = "start")
    /\ seenEarlier' = IF apc = "returned" THEN processedReasoningIds ELSE seenEarlier
    /\ SetLocals(FreshLocals)
    /\ lastChunk' = NoChunk /\ chunkCount' = 0 /\ reported' = NoUsage
    /\ LET client == getClient(adapter, hasCredential)
       IN  IF client.threw
           THEN /\ apc' = "failed"
                /\ adapterError' = client.error
                /\ network' = <<>>
                /\ requestParams' = NoRequest
                /\ modelLookup' = "none"
           ELSE \E lookup \in ModelLookups(adapter), opens \in BOOLEAN :
                /\ modelLookup' = lookup
                /\ requestParams' =
                     Request(adapter, effort, includeReasoningOf(lookup))
                /\ network' = NetworkOf(adapter)
                /\ apc' = IF opens THEN "streaming" ELSE "failed"
                /\ adapterError' = IF opens THEN <<>> ELSE <<"request", "failed">>
    /\ UNCHANGED <<adapter, effort, hasCredential>>

StreamStep(l, event, u, hasUsage) ==
    /\ SetLocals(l)
    /\ lastChunk' = event
    /\ chunkCount' = chunkCount + 1
    /\ reported' = IF hasUsage THEN Report(reported, u) ELSE reported
    /\ UNCHANGED <<adapter, apc, effort, hasCredential, network, adapterError,
                   requestParams, modelLookup, isFirstCall, seenEarlier>>

OpenRouterChunk ==
    /\ adapter = "openrouter" /\ apc = "streaming" /\ chunkCount < MaxChunks
    /\ \E chunk \in OpenRouterChunks :
         StreamStep(openrouterHandleChunk(Locals, chunk), chunk, chunk.usage,
                    chunk.hasUsage)

OpenAIEvent ==
    /\ adapter = "openai" /\ apc = "streaming" /\ chunkCount < MaxChunks
    /\ \E event \in OpenAIEvents :
         StreamStep(openaiHandleEvent(Locals, event), event, event.usage,
                    event.hasUsage)

AnthropicEvent ==
    /\ adapter = "anthropic" /\ apc = "streaming" /\ chunkCount < MaxChunks
    /\ \E event \in AnthropicEvents :
         StreamStep(anthropicHandleEvent(Locals, event), event, event.usage,
                    event.hasUsage)

GoogleEvent ==
    /\ adapter = "google" /\ apc = "streaming" /\ chunkCount < MaxChunks
    /\ \E event \in GoogleEvents :
         StreamStep(googleHandleEvent(Locals, event), event, EmptyUsage, FALSE)

\* the stream ends and the call returns { finalAnswer, thinking, usage }
AdapterReturns ==
    /\ apc = "streaming"
    /\ apc' = "returned"
    /\ IF adapter = "anthropic"
       THEN \E hasUsage \in BOOLEAN :
              \E u \in {WireUsage(Num(1), Num(2), Undefined, Undefined)} :
                /\ SetLocals(anthropicFinalMessage(Locals, hasUsage, u))
                /\ reported' = IF hasUsage THEN Report(reported, u) ELSE reported
       ELSE SetLocals(Locals) /\ reported' = reported
    /\ UNCHANGED <<adapter, effort, hasCredential, network, adapterError,
                   requestParams, modelLookup, lastChunk, chunkCount, isFirstCall,
                   seenEarlier>>

\* the stream iterator throws and the call rejects
AdapterStreamThrows ==
    /\ apc = "streaming"
    /\ apc' = "failed"
    /\ adapterError' = <<"stream", "error">>
    /\ UNCHANGED <<adapter, effort, hasCredential, network, requestParams,
                   modelLookup, thinking, finalAnswer, answerDeltas, reasoningDeltas,
                   processedReasoningIds, usage, lastChunk, chunkCount,
                   isFirstCall, emittedIds, seenEarlier, reported>>

AdapterOthersIdle ==
    /\ ExtractorIdle /\ ToolIdle /\ CallerIdle /\ ChatIdle /\ GateIdle /\ TurnIdle
    /\ PickerIdle
    /\ SseIdle
    /\ ControllerIdle

AdapterRest ==
    <<extractorVars, toolVars, callerVars, chatVars, gateVars, turnVars,
      pickerVars,
      sseVars,
      controllerVars>>

AdapterInit == InitAdapter /\ AdapterOthersIdle

NextAdapter ==
    \/ AdapterStart /\ UNCHANGED AdapterRest
    \/ OpenRouterChunk /\ UNCHANGED AdapterRest
    \/ OpenAIEvent /\ UNCHANGED AdapterRest
    \/ AnthropicEvent /\ UNCHANGED AdapterRest
    \/ GoogleEvent /\ UNCHANGED AdapterRest
    \/ AdapterReturns /\ UNCHANGED AdapterRest
    \/ AdapterStreamThrows /\ UNCHANGED AdapterRest

SpecAdapter == AdapterInit /\ [][NextAdapter]_vars

(***************************************************************************)
(* Claims about the adapters                                               *)
(***************************************************************************)
\* C21: when a streaming call has returned, finalAnswer is the in-order
\* concatenation of the strings passed to onAnswerDelta and thinking is the
\* in-order concatenation of the strings passed to onReasoningDelta.
C21_AccumulatedEqualsDelivered ==
    apc = "returned" =>
        /\ finalAnswer = Flatten(answerDeltas)
        /\ thinking = Flatten(reasoningDeltas)

\* C22: within one call no reasoning fragment id is emitted twice, and every
\* call starts its stream with an empty seen-id set.
C22_ReasoningDeduplicated ==
    /\ [](\A i, j \in 1..Len(emittedIds) : emittedIds[i] = emittedIds[j] => i = j)
    /\ [][(apc # "streaming" /\ apc' = "streaming")
             => processedReasoningIds' = {}]_vars

\* a second call emitted an id the first call had already seen, then
\* suppressed the repetition of that id within the call
C22_Witness ==
    /\ adapter = "openrouter" /\ ~isFirstCall /\ chunkCount > 0
    /\ "i1" \in seenEarlier
    /\ Len(lastChunk.details.items) = 2
    /\ lastChunk.details.items[1].id = "i1"
    /\ lastChunk.details.items[1].text # <<>>
    /\ emittedIds = <<"i1">>
    /\ reasoningDeltas = << lastChunk.details.items[1].text >>
    /\ thinking = lastChunk.details.items[1].text

\* C23: when a call has returned, every usage field the backend reported a
\* number for holds the last number reported for it.
C23_UsageKeepsLastReported ==
    apc = "returned" =>
        /\ reported.inputTokens.kind = "number"
              => usage.inputTokens = reported.inputTokens
        /\ reported.outputTokens.kind = "number"
              => usage.outputTokens = reported.outputTokens
        /\ reported.reasoningTokens.kind = "number"
              => usage.reasoningTokens = reported.reasoningTokens
        /\ reported.totalTokens.kind = "number"
              => usage.totalTokens = reported.totalTokens

\* C24: a chunk that carries the reasoning_details field never has its legacy
\* `reasoning` string passed on as reasoning text.
C24_LegacyOnlyWithoutParts ==
    [][(adapter = "openrouter" /\ chunkCount' = chunkCount + 1
          /\ lastChunk'.details.present /\ lastChunk'.reasoning # <<>>)
         => \A i \in (Len(reasoningDeltas) + 1)..Len(reasoningDeltas') :
               reasoningDeltas'[i] # lastChunk'.reasoning]_vars

\* C25: the Anthropic request attaches budget_tokens 5000 / 10000 / 20000 for
\* effort low / medium / high, and its max_tokens is at least
\* budget_tokens + 6000.
C25_BudgetMapping ==
    (adapter = "anthropic" /\ network # <<>>) =>
        /\ effort = "low" =>
              requestParams.thinking = [attached |-> TRUE, budget_tokens |-> 5000]
        /\ effort = "medium" =>
              requestParams.thinking = [attached |-> TRUE, budget_tokens |-> 10000]
        /\ effort = "high" =>
              requestParams.thinking = [attached |-> TRUE, budget_tokens |-> 20000]
        /\ requestParams.max_tokens >= requestParams.thinking.budget_tokens + 6000
        /\ effort = "low" => requestParams.max_tokens >= 11000

\* a request with effort high was sent, whose max_tokens had to be raised
C25_Witness ==
    /\ adapter = "anthropic" /\ effort = "high" /\ apc = "streaming"
    /\ requestParams.thinking.budget_tokens = 20000
    /\ requestParams.max_tokens = 26000

\* C26: with effort off the Anthropic request carries no thinking parameter.
C26_OffAttachesNoThinking ==
    (adapter = "anthropic" /\ network # <<>> /\ effort = "off") =>
        ~requestParams.thinking.attached

\* a request with effort off was sent
C26_Witness ==
    /\ adapter = "anthropic" /\ effort = "off" /\ apc = "streaming"
    /\ network = <<"messages.stream">>
    /\ requestParams.max_tokens = 16000

\* C27: a call without a credential fails with no network request issued and
\* an error that names the credential the adapter reads.
C27_MissingCredentialFailsFast ==
    (~hasCredential /\ apc # "start") =>
        /\ apc = "failed"
        /\ network = <<>>
        /\ \E i \in 1..Len(adapterError) : adapterError[i] = CredentialEnv(adapter)

\* a call without a credential has failed
C27_Witness ==
    /\ ~hasCredential /\ apc = "failed" /\ network = <<>>
    /\ adapterError = MissingCredentialError(adapter)

(***************************************************************************)
(* looksExecutableShellCommand                                             *)
(***************************************************************************)
LowerCase ==
    {"a","b","c","d","e","f","g","h","i","j","k","l","m",
     "n","o","p","q","r","s","t","u","v","w","x","y","z"}

UpperCase ==
    {"A","B","C","D","E","F","G","H","I","J","K","L","M",
     "N","O","P","Q","R","S","T","U","V","W","X","Y","Z"}

Digits == {"0","1","2","3","4","5","6","7","8","9"}

\* the character class [a-z0-9_./-]
FirstTokenChars == LowerCase \cup Digits \cup {"_", ".", "/", "-"}

\* value.split(/\s+/)[0] of a trimmed value
firstTokenOf(trimmed) ==
    LET spaces == {i \in 1..Len(trimmed) : IsSpace(trimmed[i])}
    IN  IF spaces = {} THEN trimmed
        ELSE SubSeq(trimmed, 1, (CHOOSE i \in spaces : \A j \in spaces : i <= j) - 1)

isStopListedNever(firstToken) == FALSE

\* the two stop-list tests on firstToken
isStopListed(firstToken) ==
    \/ firstToken \in {<<"i">>, <<"y","o","u">>, <<"p","l","e","a","s","e">>}
    \/ firstToken \in {<<"c","h","e","c","k">>, <<"v","i","s","i","t">>,
                       <<"t","r","y">>, <<"c","o","n","s","i","d","e","r">>,
                       <<"u","s","e">>}

looksExecutableShellCommand(command) ==
    LET trimmed == trim(command)
    IN  IF trimmed = <<>> THEN FALSE
        ELSE IF Len(trimmed) > 300 THEN FALSE
        ELSE IF trimmed[Len(trimmed)] \in {".", "!", "?"} THEN FALSE
        ELSE LET firstToken == firstTokenOf(trimmed)
             IN  IF firstToken = <<>> THEN FALSE
                 ELSE IF \E i \in 1..Len(firstToken) :
                            firstToken[i] \notin FirstTokenChars THEN FALSE
                 ELSE IF \E i \in 1..Len(firstToken) :
                            firstToken[i] \in UpperCase THEN FALSE
                 ELSE IF isStopListed(firstToken) THEN FALSE
                 ELSE TRUE

\* a word of 299 characters
Filler == [i \in 1..299 |-> "a"]

GatePieces ==
    { <<"l","s">>, <<" ">>, <<"-","l","a">>, <<".">>, <<"I">>, <<"t","r","y">>,
      <<"$">>, <<"a">>, Filler }

\* pieces one argument is made of
MaxGatePieces == 3

RECURSIVE GateCommands(_)
GateCommands(n) ==
    IF n = 0 THEN {<<>>}
    ELSE LET prev == GateCommands(n - 1)
         IN  prev \cup {s \o p : s \in prev, p \in GatePieces}

InitGate ==
    /\ gateCommand \in GateCommands(MaxGatePieces)
    /\ gpc = "called"
    /\ gateVerdict = FALSE

ApplyGate ==
    /\ gpc = "called"
    /\ gateVerdict' = looksExecutableShellCommand(gateCommand)
    /\ gpc' = "returned"
    /\ UNCHANGED gateCommand

GateRest ==
    <<extractorVars, toolVars, callerVars, chatVars, adapterVars, turnVars,
      pickerVars,
      sseVars,
      controllerVars>>

GateStart ==
    /\ InitGate
    /\ ExtractorIdle /\ ToolIdle /\ CallerIdle /\ ChatIdle /\ AdapterIdle /\ TurnIdle
    /\ PickerIdle
    /\ SseIdle
    /\ ControllerIdle

NextGate == ApplyGate /\ UNCHANGED GateRest

SpecGate == GateStart /\ [][NextGate]_vars

(***************************************************************************)
(* Claims about the gate                                                   *)
(***************************************************************************)
\* the first whitespace-delimited token of a string, empty when it has none
FirstWord(c) == firstTokenOf(trim(c))

\* the rejection conditions, read on the string c
RejectedAsWritten(c) ==
    LET word == FirstWord(c)
    IN  \/ c = <<>>
        \/ Len(c) > 300
        \/ (c # <<>> /\ c[Len(c)] \in {".", "!", "?"})
        \/ \E i \in 1..Len(word) : word[i] \notin FirstTokenChars
        \/ \E i \in 1..Len(word) : word[i] \in UpperCase
        \/ word \in {<<"i">>, <<"y","o","u">>, <<"p","l","e","a","s","e">>,
                     <<"c","h","e","c","k">>, <<"v","i","s","i","t">>,
                     <<"t","r","y">>, <<"c","o","n","s","i","d","e","r">>,
                     <<"u","s","e">>}

\* C28 as stated: the gate returns false exactly for the strings that are
\* empty, longer than 300 characters, end in sentence punctuation, or have a
\* first token with a character outside [a-z0-9_./-], an uppercase letter, or
\* a stop-listed word, and true for every other string.
C28_GateCharacterisation ==
    gpc = "returned" => (gateVerdict <=> ~RejectedAsWritten(gateCommand))

\* C28 amended: the same characterisation, of the string with its leading
\* and trailing whitespace removed.
C28_GateCharacterisesTrimmed ==
    gpc = "returned" => (gateVerdict <=> ~RejectedAsWritten(trim(gateCommand)))

\* 'ls -la' was accepted
C28_Witness ==
    /\ gpc = "returned"
    /\ gateCommand = <<"l","s"," ","-","l","a">>
    /\ gateVerdict

(***************************************************************************)
(* streamChatResponse: the command a turn offers to run                    *)
(***************************************************************************)
RUN_COMMAND_MARKER ==
    <<"_","_","R","U","N","_","C","O","M","M","A","N","D","_","_">>

\* three backquotes; "bq" stands for the backquote character
fence == <<"bq","bq","bq">>

\* s.includes(t)
includes(s, t) == indexOf(s, t) # -1

\* s.split("\n")
RECURSIVE splitLines(_)
splitLines(s) ==
    LET idx == indexOf(s, <<"\n">>)
    IN  IF idx = -1 THEN <<s>>
        ELSE <<sliceTo(s, idx)>> \o splitLines(sliceFrom(s, idx + 1))

\* lines.join("\n")
RECURSIVE joinLines(_)
joinLines(lines) ==
    IF lines = <<>> THEN <<>>
    ELSE IF Len(lines) = 1 THEN lines[1]
    ELSE lines[1] \o <<"\n">> \o joinLines(Tail(lines))

\* s.replace(/\s+$/, "")
trimEnd(s) ==
    LET keep == {i \in 1..Len(s) : ~IsSpace(s[i])}
    IN  IF keep = {} THEN <<>>
        ELSE SubSeq(s, 1, CHOOSE i \in keep : \A j \in keep : j <= i)

\* while (lines.length > 0 && lines[lines.length - 1].trim() === "") lines.pop()
popBlankLines(lines) ==
    LET keep == {i \in 1..Len(lines) : trim(lines[i]) # <<>>}
    IN  IF keep = {} THEN <<>>
        ELSE SubSeq(lines, 1, CHOOSE i \in keep : \A j \in keep : j <= i)

stripRunMarker(response) ==
    LET lines == popBlankLines(splitLines(response))
    IN  IF Len(lines) < 2 THEN [content |-> response, hasMarker |-> FALSE]
        ELSE IF trim(lines[Len(lines)]) # RUN_COMMAND_MARKER
        THEN [content |-> response, hasMarker |-> FALSE]
        ELSE [content |-> trimEnd(joinLines(SubSeq(lines, 1, Len(lines) - 1))),
              hasMarker |-> TRUE]

\* the capture groups of normalized.matchAll(/<command>([\s\S]*?)<\/command>/g)
RECURSIVE tagMatches(_)
tagMatches(s) ==
    LET open == indexOf(s, openTag)
    IN  IF open = -1 THEN <<>>
        ELSE LET rest == sliceFrom(s, open + Len(openTag))
                 close == indexOf(rest, closeTag)
             IN  IF close = -1 THEN <<>>
                 ELSE <<sliceTo(rest, close)>>
                      \o tagMatches(sliceFrom(rest, close + Len(closeTag)))

\* the character class [a-zA-Z0-9_-]
FenceLangChars == LowerCase \cup UpperCase \cup Digits \cup {"_", "-"}

\* the capture groups of normalized.matchAll(fencedPattern): a fence, a run of
\* [a-zA-Z0-9_-], a line break, the shortest body, a fence
RECURSIVE fencedBodies(_)
fencedBodies(s) ==
    LET open == indexOf(s, fence)
    IN  IF open = -1 THEN <<>>
        ELSE LET after == sliceFrom(s, open + Len(fence))
                 others == {i \in 1..Len(after) : after[i] \notin FenceLangChars}
                 stop == IF others = {} THEN Len(after) + 1
                         ELSE CHOOSE i \in others : \A j \in others : i <= j
             IN  IF stop > Len(after) \/ after[stop] # "\n"
                 THEN fencedBodies(sliceFrom(s, open + 1))
                 ELSE LET body == sliceFrom(after, stop)
                          close == indexOf(body, fence)
                      IN  IF close = -1 THEN <<>>
                          ELSE <<sliceTo(body, close)>>
                               \o fencedBodies(sliceFrom(body, close + Len(fence)))

\* the command of one fenced block: the lines before its marker line
fencedCommand(body) ==
    LET lines == splitLines(body)
        markers == {i \in 1..Len(lines) : trim(lines[i]) = RUN_COMMAND_MARKER}
    IN  IF markers = {} THEN <<>>
        ELSE LET markerIdx == CHOOSE i \in markers : \A j \in markers : i <= j
             IN  trim(joinLines(SubSeq(lines, 1, markerIdx - 1)))

\* the command above the marker on line i: the paragraph that ends at the
\* last non-blank line before it
markerCommand(lines, i) ==
    LET nonBlank == {e \in 1..(i - 1) : trim(lines[e]) # <<>>}
    IN  IF nonBlank = {} THEN <<>>
        ELSE LET end == CHOOSE e \in nonBlank : \A j \in nonBlank : j <= e
                 starts == {b \in 1..end : \A m \in b..end : trim(lines[m]) # <<>>}
                 start == CHOOSE b \in starts : \A j \in starts : b <= j
             IN  trim(joinLines(SubSeq(lines, start, i - 1)))

\* extractRunnableCommand(response): the command, or undefined
extractRunnableCommand(response) ==
    LET tags == tagMatches(response)
        tagged == IF tags = <<>> THEN <<>> ELSE trim(tags[Len(tags)])
        bodies == fencedBodies(response)
        fenced == {i \in 1..Len(bodies) : fencedCommand(bodies[i]) # <<>>}
        lines == splitLines(response)
        marked == {i \in 1..Len(lines) :
                      /\ trim(lines[i]) = RUN_COMMAND_MARKER
                      /\ markerCommand(lines, i) # <<>>}
    IN  IF tagged # <<>> THEN Str(tagged)
        ELSE IF fenced # {}
        THEN Str(fencedCommand(bodies[CHOOSE i \in fenced : \A j \in fenced : i <= j]))
        ELSE IF marked # {}
        THEN Str(markerCommand(lines, CHOOSE i \in marked : \A j \in marked : j <= i))
        ELSE NotAString

passesGateAlways(command) == TRUE

\* looksExecutableShellCommand(...) as called by the command selection
passesGate(command) == looksExecutableShellCommand(command)

\* the value commandToRun gets on the completion path
selectCommand(tagged, raw, hasMarker) ==
    IF tagged.str /\ tagged.text # <<>> /\ passesGate(tagged.text)
    THEN tagged
    ELSE LET extractedCommand == extractRunnableCommand(raw)
         IN  IF /\ extractedCommand.str /\ extractedCommand.text # <<>>
                /\ (hasMarker \/ includes(raw, RUN_COMMAND_MARKER))
                /\ passesGate(extractedCommand.text)
             THEN Str(trim(extractedCommand.text))
             ELSE NotAString

\* onAnswerDelta(delta) on the locals of the turn
turnOnAnswerDelta(l, delta) ==
    LET r == feed(l.parser, delta)
    IN  [rawResponse |-> l.rawResponse \o delta,
         parser |-> [pending |-> r.pending, inCommand |-> r.inCommand,
                     commandBuffer |-> r.commandBuffer],
         taggedCommand |-> IF Len(r.commands) > 0
                           THEN Str(r.commands[Len(r.commands)])
                           ELSE l.taggedCommand,
         fullResponse |-> l.fullResponse \o r.visible]

\* building blocks of an answer: a tagged command that passes the gate, one
\* that does not, text, a line break, a command line with the marker line, a
\* fenced block with a marker line, and the marker alone
TurnPieces ==
    { openTag \o <<"l","s">> \o closeTag,
      openTag \o <<"T","r","y"," ","i","t",".">> \o closeTag,
      <<"o","k">>,
      <<"\n">>,
      <<"p","w","d","\n">> \o RUN_COMMAND_MARKER,
      fence \o <<"s","h","\n","N","o",".","\n">> \o RUN_COMMAND_MARKER
            \o <<"\n">> \o fence,
      RUN_COMMAND_MARKER }

\* pieces one answer is made of
MaxTurnPieces == 3

RECURSIVE TurnAnswers(_)
TurnAnswers(n) ==
    IF n = 0 THEN {<<>>}
    ELSE LET prev == TurnAnswers(n - 1)
         IN  prev \cup {s \o p : s \in prev, p \in TurnPieces}

InitTurn ==
    /\ turnAnswer \in TurnAnswers(MaxTurnPieces)
    /\ turnPc = "start"
    /\ turnPos = 0
    /\ turnRaw = <<>>
    /\ turnParser = FreshParser
    /\ turnFull = <<>>
    /\ taggedCommand = NotAString
    /\ commandToRun = NotAString
    /\ surfaced = <<>>
    /\ messages = <<Msg("user", <<"prompt">>)>>
    /\ userStopped = FALSE
    /\ outcome = NoValue

\* the backend sends the answer in one or two deltas: onAnswerDelta(delta),
\* which returns at once when the user has stopped
TurnStreams ==
    /\ turnPc \in {"start", "mid"}
    /\ turnPos < Len(turnAnswer)
    /\ \E k \in 1..(Len(turnAnswer) - turnPos) :
         /\ turnPc = "mid" => k = Len(turnAnswer) - turnPos
         /\ turnPos' = turnPos + k
         /\ turnPc' = IF turnPos + k = Len(turnAnswer) THEN "streamed" ELSE "mid"
         /\ IF userStopped
            THEN UNCHANGED <<turnRaw, turnParser, taggedCommand, turnFull>>
            ELSE LET l == turnOnAnswerDelta(
                            [rawResponse |-> turnRaw, parser |-> turnParser,
                             taggedCommand |-> taggedCommand,
                             fullResponse |-> turnFull],
                            SubSeq(turnAnswer, turnPos + 1, turnPos + k))
                 IN  /\ turnRaw' = l.rawResponse
                     /\ turnParser' = l.parser
                     /\ taggedCommand' = l.taggedCommand
                     /\ turnFull' = l.fullResponse
    /\ UNCHANGED <<turnAnswer, commandToRun, surfaced, callerVars>>

\* Esc while the answer streams: stopStreaming() sets userStopped and aborts
\* the controller (maid.ts 1341-1349)
TurnEsc ==
    /\ turnPc \in {"start", "mid", "streamed"}
    /\ ~userStopped
    /\ userStopped' = TRUE
    /\ UNCHANGED <<turnVars, messages, outcome>>

\* the completion path: flush, strip the marker, choose the command, push
\* the answer
TurnCompletes ==
    /\ turnPc = "streamed" \/ (turnPc = "start" /\ turnAnswer = <<>>)
    /\ LET parserFlush == flush(turnParser)
           stripped == stripRunMarker(turnFull \o parserFlush.visible)
       IN  /\ turnParser' = [pending |-> parserFlush.pending,
                             inCommand |-> parserFlush.inCommand,
                             commandBuffer |-> parserFlush.commandBuffer]
           /\ turnFull' = stripped.content
           /\ commandToRun' = selectCommand(taggedCommand, turnRaw, stripped.hasMarker)
           /\ messages' = PushAssistant(messages, stripped.content)
    /\ outcome' = "completed"
    /\ turnPc' = "completed"
    /\ UNCHANGED <<turnAnswer, turnPos, turnRaw, taggedCommand, surfaced,
                   userStopped>>

\* the call throws, before or after the answer: the catch clause
TurnFails ==
    /\ turnPc \in {"start", "mid", "streamed"}
    /\ \E abortLike \in BOOLEAN :
         /\ outcome' = CaughtOutcome(userStopped, abortLike)
         /\ messages' = CaughtMessages(messages, userStopped, abortLike, turnFull)
    /\ turnPc' = "caught"
    /\ UNCHANGED <<turnAnswer, turnPos, turnRaw, turnParser, turnFull,
                   taggedCommand, commandToRun, surfaced, userStopped>>

\* if (commandToRun) { didRun = await maybePromptToRunCommand(commandToRun) }
MaybePromptToRunCommand ==
    /\ turnPc \in {"completed", "caught"}
    /\ outcome # "stopped"
    /\ IF commandToRun.str /\ commandToRun.text # <<>>
       THEN \E isTTY \in BOOLEAN, shouldRun \in BOOLEAN :
              /\ surfaced' = IF isTTY THEN Append(surfaced, commandToRun.text)
                             ELSE surfaced
              /\ turnPc' = IF isTTY /\ shouldRun THEN "exited" ELSE "done"
       ELSE /\ surfaced' = surfaced
            /\ turnPc' = "done"
    /\ UNCHANGED <<turnAnswer, turnPos, turnRaw, turnParser, turnFull,
                   taggedCommand, commandToRun, callerVars>>

TurnRest == <<extractorVars, toolVars, chatVars, adapterVars, gateVars,
              pickerVars,
      sseVars,
      controllerVars>>

TurnStart ==
    /\ InitTurn
    /\ ExtractorIdle /\ ToolIdle /\ ChatIdle /\ AdapterIdle /\ GateIdle
    /\ PickerIdle
    /\ SseIdle
    /\ ControllerIdle

NextTurn ==
    \/ TurnStreams /\ UNCHANGED TurnRest
    \/ TurnEsc /\ UNCHANGED TurnRest
    \/ TurnCompletes /\ UNCHANGED TurnRest
    \/ TurnFails /\ UNCHANGED TurnRest
    \/ MaybePromptToRunCommand /\ UNCHANGED TurnRest

SpecTurn == TurnStart /\ [][NextTurn]_vars

(***************************************************************************)
(* Claims about the command of a turn                                      *)
(***************************************************************************)
\* C29: in a turn at most one command is shown for confirmation, and every
\* command shown is one the gate accepts.
C29_OneGatedCommand ==
    /\ Len(surfaced) <= 1
    /\ \A i \in 1..Len(surfaced) : looksExecutableShellCommand(surfaced[i])

\* the answer held a rejected tagged command and then an accepted one, and
\* only the accepted one was shown
C29_Witness ==
    /\ turnPc \in {"done", "exited"}
    /\ Len(tagMatches(turnAnswer)) = 2
    /\ ~looksExecutableShellCommand(tagMatches(turnAnswer)[1])
    /\ surfaced = << tagMatches(turnAnswer)[2] >>

(***************************************************************************)
(* The model picker: the model-list fetches of the Newest and Custom tabs  *)
(* of the terminal picker (maid.ts) and of the React picker                *)
(* (model-picker.tsx)                                                      *)
(***************************************************************************)
MaxFetches == 3
MaxSeq == 5

\* the list fetch i resolved with, the empty list a failed load leaves, and
\* the message of the error fetch i rejected with
ListOf(i) == [kind |-> "list", of |-> i]
EmptyList == [kind |-> "list", of |-> 0]
ErrorOf(i) == [kind |-> "error", of |-> i]

\* truthiness of a model list: undefined is falsy, every array is truthy
isSet(m) == m.kind # "undefined"

PickerState ==
    [listModels |-> listModels, loadError |-> loadError, loading |-> loading,
     fetchSeq |-> fetchSeq, fetchController |-> fetchController,
     fetches |-> fetches]

SetPicker(s) ==
    /\ listModels' = s.listModels
    /\ loadError' = s.loadError
    /\ loading' = s.loading
    /\ fetchSeq' = s.fetchSeq
    /\ fetchController' = s.fetchController
    /\ fetches' = s.fetches

WithinBounds(s) ==
    /\ Len(s.fetches) <= MaxFetches
    /\ \A t \in FetchTabs : s.fetchSeq[t] <= MaxSeq

\* a fetch started for tab t that captured sequence number n
Fetch(t, n) == [tab |-> t, seq |-> n, aborted |-> FALSE, settled |-> FALSE]

\* controller.abort() of the controller held for tab t: without effect when
\* none is held or its fetch has settled
abort(s, t) ==
    LET c == s.fetchController[t] IN
    IF c = 0 \/ s.fetches[c].settled
    THEN s.fetches
    ELSE [s.fetches EXCEPT ![c].aborted = TRUE]

\* how a fetch can settle: "ok" (resolved), "error" (rejected with an Error),
\* "abort" (rejected with an AbortError). An aborted fetch rejects; the
\* custom fetch swallows an abort that arrives while it reads the body of a
\* non-OK response and then throws an ordinary Error.
Outcomes(f) ==
    IF f.aborted
    THEN IF f.tab = "custom" THEN {"abort", "error"} ELSE {"abort"}
    ELSE {"ok", "error"}

(***************************************************************************)
(* Terminal picker (maid.ts)                                               *)
(***************************************************************************)
cancelLoad(s, t) ==
    [s EXCEPT !.fetchSeq[t] = @ + 1,
              !.fetches = abort(s, t),
              !.fetchController[t] = 0,
              !.loading[t] = FALSE]

cancelNewestLoad(s) == cancelLoad(s, "newest")

cancelCustomLoad(s) == cancelLoad(s, "custom")

startLoad(s, t) ==
    [s EXCEPT !.fetchSeq[t] = @ + 1,
              !.fetches = Append(@, Fetch(t, s.fetchSeq[t] + 1)),
              !.fetchController[t] = Len(s.fetches) + 1,
              !.loading[t] = TRUE,
              !.loadError[t] = NoError]

startNewestLoad(s) ==
    IF isSet(s.listModels["newest"]) \/ s.loading["newest"]
    THEN s
    ELSE startLoad(s, "newest")

startCustomLoad(s) ==
    IF s.loading["custom"]
    THEN s
    ELSE [startLoad(s, "custom") EXCEPT !.listModels["custom"] = NoModels]

\* the sequence guard of the callbacks: seq !== newestFetchSeq returns
isCurrent(s, f) == f.seq = s.fetchSeq[f.tab]

\* the .then / .catch / .finally callbacks of fetch i settling with o
terminalSettle(s, i, o) ==
    LET f == s.fetches[i]
        t == f.tab
        s1 == IF ~isCurrent(s, f) THEN s
              ELSE CASE o = "ok" -> [s EXCEPT !.listModels[t] = ListOf(i)]
                     [] o = "error" -> [s EXCEPT !.listModels[t] = EmptyList,
                                                 !.loadError[t] = ErrorOf(i)]
                     [] OTHER -> s
        s2 == IF ~isCurrent(s1, f) THEN s1
              ELSE [s1 EXCEPT !.fetchController[t] = 0, !.loading[t] = FALSE]
    IN  [s2 EXCEPT !.fetches[i].settled = TRUE]

terminalNext(key, active) ==
    IF key = "right"
    THEN (IF active = "popular" THEN "newest"
          ELSE IF active = "newest" THEN "custom" ELSE "popular")
    ELSE (IF active = "popular" THEN "custom"
          ELSE IF active = "newest" THEN "popular" ELSE "newest")

\* render() without the canRender check
renderAlways(can) == "drawn"

\* render(): writes the list unless canRender is false
render(can) == IF can THEN "drawn" ELSE "suppressed"

\* switchTab(next) up to its await: the cancels, and startNewestLoad()
switchTab(s, next) ==
    LET s1 == IF next # "newest" THEN cancelNewestLoad(s) ELSE s
        s2 == IF next # "custom" THEN cancelCustomLoad(s1) ELSE s1
    IN  IF next = "newest" THEN startNewestLoad(s2) ELSE s2

\* switchTab(next) goes on to await configureCustomEndpoint()
needsCustomPrompt(s, next) ==
    next = "custom" /\ ~isSet(s.listModels["custom"]) /\ ~s.loading["custom"]

InitPicker ==
    /\ picker \in {"terminal", "react"}
    /\ ppc = "open"
    /\ activeList = "popular"
    /\ hasOpenRouterKey \in (IF picker = "react" THEN BOOLEAN ELSE {FALSE})
    /\ listModels = [t \in FetchTabs |-> NoModels]
    /\ loadError = [t \in FetchTabs |-> NoError]
    /\ loading = [t \in FetchTabs |-> FALSE]
    /\ fetchSeq = [t \in FetchTabs |-> 0]
    /\ fetchController = [t \in FetchTabs |-> 0]
    /\ fetches = <<>>
    /\ canRender = TRUE
    /\ lastRender = "none"

\* right / left arrow: switchTab(next), which either renders or enters the
\* line prompt for the custom endpoint (withLinePrompt: canRender = false)
TerminalSwitchTab ==
    /\ picker = "terminal" /\ ppc = "open"
    /\ \E key \in {"right", "left"} :
        LET next == terminalNext(key, activeList)
            s == switchTab(PickerState, next)
        IN  /\ WithinBounds(s)
            /\ activeList' = next
            /\ SetPicker(s)
            /\ IF needsCustomPrompt(s, next)
               THEN /\ ppc' = "prompting"
                    /\ canRender' = FALSE
                    /\ lastRender' = "none"
               ELSE /\ lastRender' = render(canRender)
                    /\ UNCHANGED <<ppc, canRender>>
    /\ UNCHANGED <<picker, hasOpenRouterKey>>

\* key e on the custom tab: configureCustomEndpoint() enters the line prompt
TerminalConfigureCustom ==
    /\ picker = "terminal" /\ ppc = "open"
    /\ activeList = "custom"
    /\ ppc' = "prompting"
    /\ canRender' = FALSE
    /\ lastRender' = "none"
    /\ UNCHANGED <<picker, activeList, hasOpenRouterKey, listModels, loadError,
                   loading, fetchSeq, fetchController, fetches>>

\* the endpoint and the key have been entered: the finally of withLinePrompt
TerminalPromptEnds ==
    /\ picker = "terminal" /\ ppc = "prompting"
    /\ ppc' = "prompted"
    /\ canRender' = TRUE
    /\ lastRender' = "none"
    /\ UNCHANGED <<picker, activeList, hasOpenRouterKey, listModels, loadError,
                   loading, fetchSeq, fetchController, fetches>>

\* after the prompt: startCustomLoad(); render()
TerminalAfterPrompt ==
    /\ picker = "terminal" /\ ppc = "prompted"
    /\ LET s == startCustomLoad(PickerState)
       IN  WithinBounds(s) /\ SetPicker(s)
    /\ ppc' = "open"
    /\ lastRender' = render(canRender)
    /\ UNCHANGED <<picker, activeList, hasOpenRouterKey, canRender>>

\* a key that only redraws the list (navigation, filter, show more)
TerminalListKey ==
    /\ picker = "terminal" /\ ppc = "open"
    /\ lastRender' = render(canRender)
    /\ UNCHANGED <<picker, ppc, activeList, hasOpenRouterKey, listModels,
                   loadError, loading, fetchSeq, fetchController, fetches,
                   canRender>>

\* the picker is left: cleanup() cancels both loads
TerminalCleanup ==
    /\ picker = "terminal" /\ ppc = "open"
    /\ LET s == cancelCustomLoad(cancelNewestLoad(PickerState))
       IN  WithinBounds(s) /\ SetPicker(s)
    /\ ppc' = "closed"
    /\ lastRender' = "none"
    /\ UNCHANGED <<picker, activeList, hasOpenRouterKey, canRender>>

\* a fetch settles; its .finally renders when it is the current fetch of the
\* active tab
TerminalFetchSettles ==
    /\ picker = "terminal"
    /\ \E i \in DOMAIN fetches :
        /\ ~fetches[i].settled
        /\ \E o \in Outcomes(fetches[i]) :
            SetPicker(terminalSettle(PickerState, i, o))
        /\ lastRender' =
             IF isCurrent(PickerState, fetches[i]) /\ activeList = fetches[i].tab
             THEN render(canRender)
             ELSE "none"
    /\ UNCHANGED <<picker, ppc, activeList, hasOpenRouterKey, canRender>>

(***************************************************************************)
(* React picker (model-picker.tsx)                                         *)
(***************************************************************************)
nextTab(t) ==
    IF t = "popular" THEN "newest"
    ELSE IF t = "newest" THEN "custom"
    ELSE IF t = "custom" THEN "settings" ELSE "popular"

prevTab(t) ==
    IF t = "popular" THEN "custom"
    ELSE IF t = "newest" THEN "popular"
    ELSE IF t = "custom" THEN "newest" ELSE "custom"

\* the body of the fetch effect of tab t; an early return registers no
\* cleanup, otherwise the cleanup aborts the controller created here
reactEffect(s, t, active, hasKey) ==
    LET skip == IF t = "newest"
                THEN \/ active # "newest"
                     \/ ~hasKey
                     \/ isSet(s.listModels[t]) \/ s.loading[t]
                ELSE \/ active # "custom"
                     \/ s.loading[t]
                     \/ isSet(s.listModels[t])
    IN  IF skip
        THEN [s EXCEPT !.fetchController[t] = 0]
        ELSE [s EXCEPT !.fetches = Append(@, Fetch(t, 0)),
                       !.fetchController[t] = Len(s.fetches) + 1,
                       !.loading[t] = TRUE,
                       !.loadError[t] = NoError]

\* a dependency of the effect of tab t changed: its cleanup runs, then its body
reactRerun(s, t, active, hasKey) ==
    reactEffect([s EXCEPT !.fetches = abort(s, t)], t, active, hasKey)

\* the .then / .catch / .finally callbacks of fetch i settling with o, and
\* the effect re-run that a changed model list causes
reactSettle(s, i, o, active, hasKey) ==
    LET f == s.fetches[i]
        t == f.tab
        s0 == [s EXCEPT !.fetches[i].settled = TRUE]
        s1 == CASE o = "ok" -> [s0 EXCEPT !.listModels[t] = ListOf(i)]
                [] o = "error" /\ t = "newest" ->
                       [s0 EXCEPT !.loadError[t] = ErrorOf(i)]
                [] o = "error" /\ t = "custom" ->
                       [s0 EXCEPT !.loadError[t] = ErrorOf(i),
                                  !.listModels[t] = EmptyList]
                [] OTHER -> s0
        s2 == [s1 EXCEPT !.loading[t] = FALSE]
    IN  IF s2.listModels[t] # s.listModels[t]
        THEN reactRerun(s2, t, active, hasKey)
        ELSE s2

\* left / right arrow: setActiveTab; both fetch effects depend on activeTab
ReactSwitchTab ==
    /\ picker = "react" /\ ppc = "open"
    /\ \E key \in {"right", "left"} :
        LET next == IF key = "right" THEN nextTab(activeList)
                                     ELSE prevTab(activeList)
            s1 == reactRerun(PickerState, "newest", next, hasOpenRouterKey)
            s2 == reactRerun(s1, "custom", next, hasOpenRouterKey)
        IN  /\ WithinBounds(s2)
            /\ activeList' = next
            /\ SetPicker(s2)
    /\ UNCHANGED <<picker, ppc, hasOpenRouterKey, canRender, lastRender>>

\* key k on the popular or newest tab, a key that validates is entered:
\* setOpenrouterApiKey(value); setNewestModels(undefined);
\* setNewestError(undefined)
ReactEditOpenRouterKey ==
    /\ picker = "react" /\ ppc = "open"
    /\ activeList \in {"popular", "newest"}
    /\ \E newValue \in BOOLEAN :
        LET s0 == PickerState
            s1 == [s0 EXCEPT !.listModels["newest"] = NoModels,
                             !.loadError["newest"] = NoError]
            depsChanged == \/ newValue \/ ~hasOpenRouterKey
                           \/ isSet(s0.listModels["newest"])
            s2 == IF depsChanged
                  THEN reactRerun(s1, "newest", activeList, TRUE)
                  ELSE s1
        IN  WithinBounds(s2) /\ SetPicker(s2)
    /\ hasOpenRouterKey' = TRUE
    /\ UNCHANGED <<picker, ppc, activeList, canRender, lastRender>>

\* key k on the custom tab, an endpoint is entered: setCustomEndpoint(...);
\* setCustomModels(undefined); setCustomError(undefined)
ReactEditCustomEndpoint ==
    /\ picker = "react" /\ ppc = "open"
    /\ activeList = "custom"
    /\ \E newValue \in BOOLEAN :
        LET s0 == PickerState
            s1 == [s0 EXCEPT !.listModels["custom"] = NoModels,
                             !.loadError["custom"] = NoError]
            depsChanged == newValue \/ isSet(s0.listModels["custom"])
            s2 == IF depsChanged
                  THEN reactRerun(s1, "custom", activeList, hasOpenRouterKey)
                  ELSE s1
        IN  WithinBounds(s2) /\ SetPicker(s2)
    /\ UNCHANGED <<picker, ppc, activeList, hasOpenRouterKey, canRender,
                   lastRender>>

ReactFetchSettles ==
    /\ picker = "react"
    /\ \E i \in DOMAIN fetches :
        /\ ~fetches[i].settled
        /\ \E o \in Outcomes(fetches[i]) :
            LET s == reactSettle(PickerState, i, o, activeList, hasOpenRouterKey)
            IN  WithinBounds(s) /\ SetPicker(s)
    /\ UNCHANGED <<picker, ppc, activeList, hasOpenRouterKey, canRender,
                   lastRender>>

PickerRest ==
    <<extractorVars, toolVars, callerVars, chatVars, adapterVars, gateVars,
      turnVars,
      sseVars,
      controllerVars>>

PickerStart ==
    /\ InitPicker
    /\ ExtractorIdle /\ ToolIdle /\ CallerIdle /\ ChatIdle /\ AdapterIdle
    /\ GateIdle /\ TurnIdle
    /\ SseIdle
    /\ ControllerIdle

NextPicker ==
    \/ TerminalSwitchTab /\ UNCHANGED PickerRest
    \/ TerminalConfigureCustom /\ UNCHANGED PickerRest
    \/ TerminalPromptEnds /\ UNCHANGED PickerRest
    \/ TerminalAfterPrompt /\ UNCHANGED PickerRest
    \/ TerminalListKey /\ UNCHANGED PickerRest
    \/ TerminalCleanup /\ UNCHANGED PickerRest
    \/ TerminalFetchSettles /\ UNCHANGED PickerRest
    \/ ReactSwitchTab /\ UNCHANGED PickerRest
    \/ ReactEditOpenRouterKey /\ UNCHANGED PickerRest
    \/ ReactEditCustomEndpoint /\ UNCHANGED PickerRest
    \/ ReactFetchSettles /\ UNCHANGED PickerRest

SpecPicker == PickerStart /\ [][NextPicker]_vars

(***************************************************************************)
(* Claims about the model picker                                           *)
(***************************************************************************)
\* fetch i has been cancelled, or a later fetch was started for its tab
Stale(i) ==
    \/ fetches[i].aborted
    \/ \E j \in (i + 1)..Len(fetches) : fetches[j].tab = fetches[i].tab

\* a step in which a stale fetch settles leaves the model list, the error
\* text and the loading flag of its tab as they were
StaleSettleChangesNothing ==
    \A i \in DOMAIN fetches :
        (~fetches[i].settled /\ fetches'[i].settled /\ Stale(i)) =>
            LET t == fetches[i].tab
            IN  /\ listModels'[t] = listModels[t]
                /\ loadError'[t] = loadError[t]
                /\ loading'[t] = loading[t]

\* C30: the result of a model-list fetch that was cancelled or superseded
\* never changes the model list, the error text or the loading flag of its
\* tab, in whatever order the fetches settle.
C30_StaleResultsIgnored == [][StaleSettleChangesNothing]_vars

\* the same for the terminal picker alone, whose callbacks carry the
\* sequence guard
TerminalPickerIgnoresStale ==
    [][picker = "terminal" => StaleSettleChangesNothing]_vars

\* a cancelled fetch of the terminal picker has settled while a later fetch
\* of its tab was still loading
TerminalStaleSettled ==
    /\ picker = "terminal"
    /\ \E i \in DOMAIN fetches : \E j \in DOMAIN fetches :
        /\ i < j /\ fetches[i].tab = fetches[j].tab
        /\ fetches[i].aborted /\ fetches[i].settled
        /\ ~fetches[j].settled /\ loading[fetches[j].tab]

\* the user leaves tab t while the fetch of t is in flight, and after the
\* step that fetch is aborted, t holds no controller and is not loading
LeavingCancels(t) ==
    LET c == fetchController[t]
    IN  (/\ activeList = t /\ activeList' # t
         /\ c # 0 /\ ~fetches[c].settled /\ ~fetches[c].aborted)
        => (/\ fetches'[c].aborted
            /\ fetchController'[t] = 0
            /\ ~loading'[t])

\* a tab that is not the active one has no fetch in flight and is not loading
LeftTabIsQuiet(t) ==
    activeList # t =>
        /\ ~loading[t]
        /\ fetchController[t] = 0
        /\ \A i \in DOMAIN fetches :
            (fetches[i].tab = t /\ ~fetches[i].settled) => fetches[i].aborted

\* C31: switching away from the Newest (Custom) tab while its fetch is in
\* flight aborts that fetch, and from then on the tab has no fetch in flight
\* and its loading flag is false.
C31_LeavingTabCancelsFetch ==
    /\ [][\A t \in FetchTabs : LeavingCancels(t)]_vars
    /\ [](\A t \in FetchTabs : LeftTabIsQuiet(t))

\* the same for the terminal picker alone, which cancels in switchTab
TerminalLeavingCancelsFetch ==
    /\ [][picker = "terminal" => \A t \in FetchTabs : LeavingCancels(t)]_vars
    /\ [](picker = "terminal" => \A t \in FetchTabs : LeftTabIsQuiet(t))

\* the terminal picker has left a tab whose fetch was in flight
TerminalLeftLoadingTab ==
    /\ picker = "terminal" /\ ppc = "open"
    /\ \E i \in DOMAIN fetches :
        /\ fetches[i].aborted /\ ~fetches[i].settled
        /\ activeList # fetches[i].tab

\* C32: while the picker is in a line prompt (canRender is false) no step
\* writes a list redraw, also when a model fetch settles in that window.
C32_NoRedrawInLinePrompt == [][~canRender => lastRender' # "drawn"]_vars

\* the current fetch of the active tab settled during a line prompt, and its
\* render() call wrote nothing
C32_Witness ==
    /\ ppc = "prompting" /\ ~canRender
    /\ lastRender = "suppressed"
    /\ \E i \in DOMAIN fetches :
        /\ fetches[i].settled /\ ~fetches[i].aborted
        /\ fetches[i].tab = activeList

(***************************************************************************)
(* streamCustomOpenAICompatibleResponse: the decoder of the event stream   *)
(* of the custom endpoint (maid.ts 1852-1882)                              *)
(***************************************************************************)
MaxSseLines == 3

\* The text of a JSON value is written in pieces: "J<" stands for the text
\* {"choices":[{"delta":{"content":" and ">J" for "}}]} , with the characters
\* of the content between them; "{}" is an object without choices.
ContentChars == {"x", "y"}

\* JSON.parse(data) and chunk?.choices?.[0]?.delta?.content: whether the
\* text parses, and the content string it holds
jsonParse(data) ==
    IF data = <<"{}">>
    THEN [ok |-> TRUE, hasContent |-> FALSE, content |-> <<>>]
    ELSE IF /\ Len(data) >= 2
            /\ data[1] = "J<" /\ data[Len(data)] = ">J"
            /\ \A i \in 2..(Len(data) - 1) : data[i] \in ContentChars
    THEN [ok |-> TRUE, hasContent |-> TRUE,
          content |-> SubSeq(data, 2, Len(data) - 1)]
    ELSE [ok |-> FALSE, hasContent |-> FALSE, content |-> <<>>]

dataPrefix == <<"d", "a", "t", "a", ":">>

\* line.startsWith("data:")
startsWithData(line) ==
    Len(line) >= Len(dataPrefix) /\ SubSeq(line, 1, Len(dataPrefix)) = dataPrefix

\* the body of the for loop on one raw line; l holds buffer, full and deltas.
\* The catch clause is empty: a payload that does not parse is skipped.
sseLine(l, rawLine) ==
    LET line == trim(rawLine)
    IN  IF ~startsWithData(line) THEN l
        ELSE LET data == trim(sliceFrom(line, Len(dataPrefix)))
             IN  IF data = <<>> \/ data = <<"[DONE]">> THEN l
                 ELSE LET chunk == jsonParse(data)
                      IN  IF ~chunk.ok THEN l
                          ELSE IF chunk.hasContent /\ Len(chunk.content) > 0
                          THEN [l EXCEPT !.full = @ \o chunk.content,
                                         !.deltas = Append(@, chunk.content)]
                          ELSE l

RECURSIVE sseLines(_, _)
sseLines(l, lines) ==
    IF lines = <<>> THEN l
    ELSE sseLines(sseLine(l, Head(lines)), Tail(lines))

\* one turn of the while loop on the text `value` of a read:
\* buffer += value; lines = buffer.split("\n"); buffer = lines.pop() || ""
sseChunk(l, value) ==
    LET text == l.buffer \o value
        lines == splitLines(text)
        kept == lines[Len(lines)]
    IN  [sseLines(l, SubSeq(lines, 1, Len(lines) - 1)) EXCEPT !.buffer = kept]

\* the lines a body is made of
GoodLine(c) == dataPrefix \o <<" ", "J<">> \o c \o <<">J">>
SseLineKinds ==
    { GoodLine(<<"x">>),                          \* a content delta
      dataPrefix \o <<"J<", "y", ">J", "\r">>,    \* no space, CR before LF
      dataPrefix \o <<" ", "J<", "x">>,           \* truncated JSON
      dataPrefix \o <<" ", "{}">>,                \* a chunk without content
      dataPrefix \o <<" ", "[DONE]">>,
      <<>> }                                      \* the blank line of an event

\* bodies of up to n lines, each ended by a line feed
RECURSIVE SseTerminated(_)
SseTerminated(n) ==
    IF n = 0 THEN {<<>>}
    ELSE LET prev == SseTerminated(n - 1)
         IN  prev \cup {b \o k \o <<"\n">> : b \in prev, k \in SseLineKinds}

\* the last line of a body may lack its line feed
SseBodies ==
    SseTerminated(MaxSseLines)
        \cup {b \o k : b \in SseTerminated(MaxSseLines - 1),
                       k \in SseLineKinds \ {<<>>}}

InitSse ==
    /\ sseBody \in SseBodies
    /\ sseRead = 0
    /\ sseBuffer = <<>>
    /\ sseFull = <<>>
    /\ sseDeltas = <<>>
    /\ spc = "reading"

\* reader.read() returns the next part of the body, of any non-zero length
SseReadChunk ==
    /\ spc = "reading"
    /\ sseRead < Len(sseBody)
    /\ \E n \in 1..(Len(sseBody) - sseRead) :
        LET value == SubSeq(sseBody, sseRead + 1, sseRead + n)
            l == sseChunk([buffer |-> sseBuffer, full |-> sseFull,
                           deltas |-> sseDeltas], value)
        IN  /\ sseRead' = sseRead + n
            /\ sseBuffer' = l.buffer
            /\ sseFull' = l.full
            /\ sseDeltas' = l.deltas
    /\ UNCHANGED <<sseBody, spc>>

\* reader.read() reports done: break; return full
SseReadDone ==
    /\ spc = "reading"
    /\ sseRead = Len(sseBody)
    /\ spc' = "returned"
    /\ UNCHANGED <<sseBody, sseRead, sseBuffer, sseFull, sseDeltas>>

SseRest ==
    <<extractorVars, toolVars, callerVars, chatVars, adapterVars, gateVars,
      turnVars, pickerVars,
      controllerVars>>

SseStart ==
    /\ InitSse
    /\ ExtractorIdle /\ ToolIdle /\ CallerIdle /\ ChatIdle /\ AdapterIdle
    /\ GateIdle /\ TurnIdle /\ PickerIdle
    /\ ControllerIdle

NextSse ==
    \/ SseReadChunk /\ UNCHANGED SseRest
    \/ SseReadDone /\ UNCHANGED SseRest

SpecSse == SseStart /\ [][NextSse]_vars

(***************************************************************************)
(* Claims about the event-stream decoder                                   *)
(***************************************************************************)
\* the payload of a line of the body, when the line is a data line
DataOf(rawLine) ==
    LET line == trim(rawLine)
    IN  IF startsWithData(line) THEN trim(sliceFrom(line, Len(dataPrefix)))
        ELSE <<>>

\* the line is a data line whose payload does not parse
Malformed(rawLine) ==
    LET data == DataOf(rawLine)
    IN  data # <<>> /\ data # <<"[DONE]">> /\ ~jsonParse(data).ok

\* the content deltas carried by the data lines, in body order
RECURSIVE ContentsOf(_)
ContentsOf(lines) ==
    IF lines = <<>> THEN <<>>
    ELSE LET data == DataOf(Head(lines))
             chunk == jsonParse(data)
         IN  (IF chunk.ok /\ chunk.hasContent /\ Len(chunk.content) > 0
              THEN <<chunk.content>> ELSE <<>>)
             \o ContentsOf(Tail(lines))

ExpectedDeltas == ContentsOf(splitLines(sseBody))

HasMalformedLine ==
    \E i \in 1..Len(splitLines(sseBody)) : Malformed(splitLines(sseBody)[i])

EndsWithLineFeed == sseBody = <<>> \/ sseBody[Len(sseBody)] = "\n"

\* C33: a data line that fails to parse is skipped, the well-formed chunks
\* before and after it are all delivered through onDelta in order, and the
\* call returns.
C33_MalformedLineSkipped ==
    (spc = "returned" /\ HasMalformedLine) => sseDeltas = ExpectedDeltas

\* the same for bodies whose last line ends with a line feed
MalformedSkippedInTerminatedBody ==
    (spc = "returned" /\ HasMalformedLine /\ EndsWithLineFeed)
        => sseDeltas = ExpectedDeltas

\* a terminated body with a malformed line between two content lines was
\* decoded
MalformedBetweenContentLines ==
    /\ spc = "returned" /\ EndsWithLineFeed
    /\ Len(sseDeltas) = 2
    /\ Malformed(splitLines(sseBody)[2])

\* C38: every data line of the body that carries a content delta, also one
\* that is split across reads or is the last line of the body, gives exactly
\* one onDelta call, in body order, and the returned text is the
\* concatenation of the deltas, however the body is split into reads.
C38_NoContentLost ==
    spc = "returned" =>
        /\ sseDeltas = ExpectedDeltas
        /\ sseFull = Flatten(sseDeltas)

\* the same for bodies whose last line ends with a line feed
NoContentLostInTerminatedBody ==
    (spc = "returned" /\ EndsWithLineFeed) =>
        /\ sseDeltas = ExpectedDeltas
        /\ sseFull = Flatten(sseDeltas)

(***************************************************************************)
(* Claims about the commands of closed regions                             *)
(***************************************************************************)
\* the texts between the delimiters of the closed regions of s, in order
RECURSIVE Regions(_)
Regions(s) ==
    LET o == indexOf(s, openTag)
    IN  IF o = -1 THEN <<>>
        ELSE LET rest == sliceFrom(s, o + Len(openTag))
                 c == indexOf(rest, closeTag)
             IN  IF c = -1 THEN <<>>
                 ELSE <<sliceTo(rest, c)>> \o Regions(sliceFrom(rest, c + Len(closeTag)))

\* what follows the last closed region of s
RECURSIVE AfterRegions(_)
AfterRegions(s) ==
    LET o == indexOf(s, openTag)
    IN  IF o = -1 THEN s
        ELSE LET rest == sliceFrom(s, o + Len(openTag))
                 c == indexOf(rest, closeTag)
             IN  IF c = -1 THEN s
                 ELSE AfterRegions(sliceFrom(rest, c + Len(closeTag)))

RECURSIVE Trimmed(_)
Trimmed(texts) ==
    IF texts = <<>> THEN <<>> ELSE <<trim(Head(texts))>> \o Trimmed(Tail(texts))

RECURSIVE NonEmpty(_)
NonEmpty(texts) ==
    IF texts = <<>> THEN <<>>
    ELSE (IF Head(texts) = <<>> THEN <<>> ELSE <<Head(texts)>>) \o NonEmpty(Tail(texts))

FedSoFar == SubSeq(input, 1, pos)

\* C34 as stated: every closed region of the text fed so far has given
\* exactly one command, its trimmed text, in order of appearance, and the
\* extractor is inside a tag only when a tag was opened after the last
\* closed region.
C34_EveryRegionOneCommand ==
    /\ commandsAll = Trimmed(Regions(FedSoFar))
    /\ phase = "feeding" =>
          (inCommand <=> indexOf(AfterRegions(FedSoFar), openTag) # -1)

\* C34 amended: every closed region whose text is not blank has given
\* exactly one command, its trimmed text, in order of appearance; a region
\* that is empty or blank gives none; after a closed region the extractor is
\* outside until the next open literal.
C34_EveryNonBlankRegionOneCommand ==
    /\ commandsAll = NonEmpty(Trimmed(Regions(FedSoFar)))
    /\ phase = "feeding" =>
          (inCommand <=> indexOf(AfterRegions(FedSoFar), openTag) # -1)

\* two regions, the first padded with spaces, were fed in several chunks and
\* gave their two trimmed commands
C34_Witness ==
    /\ input = TwoCommands
    /\ pos = Len(input)
    /\ Len(visibleFeeds) > 0
    /\ commandsAll = << <<"a">>, <<"c">> >>
    /\ ~inCommand
    /\ \E n \in 1..(Len(input) - 1) : OneShot(n).inCommand

(***************************************************************************)
(* Claims about the reasoning parameter of the OpenRouter request          *)
(***************************************************************************)
\* C35: when the model-list call of the OpenRouter adapter fails, or the
\* selected model is not in the list, the chat request still carries the
\* reasoning parameter.
C35_ReasoningSentWithoutModelInfo ==
    (adapter = "openrouter" /\ modelLookup \in {"failed", "notFound"})
        => requestParams.reasoning # "none"

\* the same for a model-list call that fails
ReasoningSentWhenListFails ==
    (adapter = "openrouter" /\ modelLookup = "failed")
        => requestParams.reasoning # "none"

(***************************************************************************)
(* Claims about the classification of a stopped turn                       *)
(***************************************************************************)
\* the step settles the turn as stopped
SettlesStopped == cpc # "settled" /\ cpc' = "settled" /\ outcome' = "stopped"

\* C36: a turn is reported as stopped only when the user requested a stop in
\* that turn and the turn ended through the cancelled request; a failure of
\* the backend or the transport (the request was not cancelled) is never
\* reported as stopped.
C36_StopClassificationSound ==
    [][SettlesStopped => (userStopped /\ transport = "cancelled")]_vars


\* C37: a turn that the user stopped with Esc, or that failed, never offers a
\* command to run: whenever the turn was stopped or ended as stopped or
\* failed, no command has been surfaced to the run prompt.
C37_NoCommandAfterStopOrFailure ==
    (userStopped \/ outcome \in {"stopped", "failed"}) => surfaced = <<>>

\* the failure half on its own: a turn that ended in the catch clause offers
\* no command, because commandToRun is only assigned on the completion path
FailedTurnOffersNoCommand ==
    turnPc \in {"caught", "done", "exited"} /\ outcome \in {"stopped", "failed"}
        => surfaced = <<>>

\* a stopped stream that was cut by the abort offers no command either
StoppedAndCaught ==
    userStopped /\ outcome = "stopped" /\ taggedCommand.str

(***************************************************************************)
(* The terminal controller (controller2.ts): the monitor loop that turns   *)
(* screen captures into 'busy' and 'idle' events, the waits for 'idle',    *)
(* and the decision cycles main() starts on every 'idle' event.            *)
(***************************************************************************)
MaxOutputs == 3
MaxWaits == 2
IdleTicks == 2

\* emitState(state): only a change of currentState emits the event
emitState(state, current) ==
    [currentState |-> state, emitted |-> state # current]

FreeSlots(cs) == {c \in CycleSlots : cs[c] = "free"}
Running(cs) == {c \in CycleSlots : cs[c] # "free"}

\* the listeners of one 'idle' event: every pending wait's onIdle removes
\* itself and resolves (a cycle waiting inside runCommand goes on to its
\* follow-up LLM call), and main()'s handler starts handleTerminalState
onIdleEvent(cs, agent) ==
    LET resumed == [c \in CycleSlots |->
                        IF cs[c] = "waiting" THEN "llm" ELSE cs[c]]
    IN  IF agent /\ FreeSlots(resumed) # {}
        THEN LET slot == CHOOSE c \in FreeSlots(resumed) :
                            \A d \in FreeSlots(resumed) : c <= d
             IN  [resumed EXCEPT ![slot] = "llm"]
        ELSE resumed

\* the state after initialise(): 'ready' was emitted, the monitor loop runs
InitController ==
    /\ monitoring = TRUE
    /\ hasAgent \in BOOLEAN
    /\ screen \in 0..1
    /\ lastContent = 0
    /\ elapsed = 0
    /\ currentState = "busy"
    /\ waiters = 0 /\ waitsStarted = 0
    /\ cycles = [c \in CycleSlots |-> "free"]

\* one iteration of monitorLoop: capture, compare, emit, sleep
MonitorLoop ==
    /\ monitoring
    /\ IF screen # lastContent
       THEN /\ lastContent' = screen
            /\ elapsed' = 0
            /\ currentState' = emitState("busy", currentState).currentState
            /\ UNCHANGED <<waiters, cycles>>
       ELSE IF elapsed >= IdleTicks
       THEN LET e == emitState("idle", currentState)
            IN  /\ currentState' = e.currentState
                /\ waiters' = IF e.emitted THEN 0 ELSE waiters
                /\ cycles' = IF e.emitted THEN onIdleEvent(cycles, hasAgent)
                             ELSE cycles
                /\ UNCHANGED <<lastContent, elapsed>>
       ELSE /\ elapsed' = elapsed + 1
            /\ UNCHANGED <<lastContent, currentState, waiters, cycles>>
    /\ UNCHANGED <<monitoring, hasAgent, screen, waitsStarted>>

\* the program in the terminal prints something
TerminalOutput ==
    /\ monitoring
    /\ screen < MaxOutputs
    /\ screen' = screen + 1
    /\ UNCHANGED <<monitoring, hasAgent, lastContent, elapsed, currentState,
                   waiters, waitsStarted, cycles>>

\* what the keys sent do to the screen
afterKeys(s, changes) == IF changes /\ s < MaxOutputs THEN s + 1 ELSE s

\* a server request: sendKeys(...) then waitForTerminalIdle()
ServerRequest ==
    /\ monitoring /\ ~hasAgent
    /\ waitsStarted < MaxWaits
    /\ \E changes \in BOOLEAN : screen' = afterKeys(screen, changes)
    /\ waiters' = waiters + 1
    /\ waitsStarted' = waitsStarted + 1
    /\ UNCHANGED <<monitoring, hasAgent, lastContent, elapsed, currentState,
                   cycles>>

\* handleTerminalState: the LLM answers with no action, or with actions
\* that type into the terminal and return nothing; the cycle ends
HandleTerminalStateEnds(c) ==
    /\ cycles[c] = "llm"
    /\ \E changes \in BOOLEAN : screen' = afterKeys(screen, changes)
    /\ cycles' = [cycles EXCEPT ![c] = "free"]
    /\ UNCHANGED <<monitoring, hasAgent, lastContent, elapsed, currentState,
                   waiters, waitsStarted>>

\* handleTerminalState: an action calls context.runCommand(cmd):
\* capturePane, sendCommand, waitForIdle
HandleTerminalStateRunsCommand(c) ==
    /\ cycles[c] = "llm"
    /\ waitsStarted < MaxWaits
    /\ \E changes \in BOOLEAN : screen' = afterKeys(screen, changes)
    /\ waiters' = waiters + 1
    /\ waitsStarted' = waitsStarted + 1
    /\ cycles' = [cycles EXCEPT ![c] = "waiting"]
    /\ UNCHANGED <<monitoring, hasAgent, lastContent, elapsed, currentState>>

ControllerRest ==
    <<extractorVars, toolVars, callerVars, chatVars, adapterVars, gateVars,
      turnVars, pickerVars, sseVars>>

ControllerStart ==
    /\ InitController
    /\ ExtractorIdle /\ ToolIdle /\ CallerIdle /\ ChatIdle /\ AdapterIdle
    /\ GateIdle /\ TurnIdle /\ PickerIdle /\ SseIdle

NextController ==
    \/ MonitorLoop /\ UNCHANGED ControllerRest
    \/ TerminalOutput /\ UNCHANGED ControllerRest
    \/ ServerRequest /\ UNCHANGED ControllerRest
    \/ \E c \in CycleSlots : HandleTerminalStateEnds(c) /\ UNCHANGED ControllerRest
    \/ \E c \in CycleSlots :
         HandleTerminalStateRunsCommand(c) /\ UNCHANGED ControllerRest

SpecController == ControllerStart /\ [][NextController]_vars

\* the monitor loop keeps running: setTimeout(50) always fires
SpecControllerLive ==
    SpecController /\ WF_vars(MonitorLoop /\ UNCHANGED ControllerRest)

\* C39: every wait for terminal idle that was started eventually resolves,
\* given that the monitor loop keeps running and the screen stops changing
\* (the terminal prints at most MaxOutputs times).
C39_WaitForIdleResolves == (waiters > 0) ~> (waiters = 0)

\* a wait that starts while the controller is busy does resolve
WaitWhileBusyResolves ==
    (waiters > 0 /\ currentState = "busy") ~> (waiters = 0)

\* the case the claim names: the controller is idle, a wait is pending and
\* the screen is what the monitor last saw
WaitStartedWhileIdle ==
    waiters > 0 /\ currentState = "idle" /\ screen = lastContent

\* C40: at most one decision cycle (handleTerminalState with the actions it
\* runs) is in progress at any time for a controller.
C40_AtMostOneCycle == Cardinality(Running(cycles)) <= 1
====
